---- MODULE Spec2Model ----
(***************************************************************************)
(* invjsible: bytes <-> invisible Unicode characters, with an optional     *)
(* Brotli layer.  Strings are sequences of UTF-16 code units (integers),   *)
(* buffers and file contents are sequences of bytes (0..255).              *)
(***************************************************************************)
EXTENDS Integers, Sequences, FiniteSets, TLC

VARIABLES
    buf,        \* codec: the buffer handed to encodeToInvisible
    stream,     \* codec: the string handed to decodeFromInvisible
    encoded,    \* codec: result of encodeToInvisible(buf)
    decoded,    \* codec: result of the last decodeFromInvisible call
    step,       \* codec: which call has been made
    codec,      \* which lossless compressor stands behind zlib's brotli
    fs,         \* the files: name -> bytes, or NoFile
    encRes,     \* what the last encode() call did
    decRes,     \* what the last decode() call did
    outOrigin,  \* who wrote the file "out" last
    encRes2,    \* what a second encode() call with the same arguments did
    execRes,    \* what running a self-extracting file did
    calls,      \* concurrent calls: their positions and local variables
    disk,       \* command line: the files of the working directory, path -> bytes
    cli         \* command line: what the last run of main() did

codecVars == <<buf, stream, encoded, decoded, step>>
fileVars == <<codec, fs, encRes, decRes, outOrigin, encRes2, execRes>>
callVars == <<calls>>
vars ==
    <<buf, stream, encoded, decoded, step, codec, fs, encRes, decRes, outOrigin,
      encRes2, execRes, calls, disk, cli>>

(***************************************************************************)
(* Bounds of the model.                                                    *)
(***************************************************************************)
MaxBufLen == 3      \* longest buffer given to encodeToInvisible
MaxGroups == 2      \* most complete 8-symbol groups of a stream given to the decoder
MaxLen == 4         \* longest input file of encode()

(***************************************************************************)
(* invisibleChars (code units).                                            *)
(***************************************************************************)
ZERO == 8203
ONE == 8204
COMPRESS_BEFORE == 8205
COMPRESS_AFTER == 8288

Bytes == 0..255

(***************************************************************************)
(* String and number helpers of the JavaScript runtime.                    *)
(***************************************************************************)
\* s.startsWith(c) for a one-character c
startsWith(s, c) == Len(s) >= 1 /\ s[1] = c

\* s.slice(1)
slice1(s) == SubSeq(s, 2, Len(s))

\* n.toString(2): the binary digits of n without leading zeros ("0" for 0)
RECURSIVE toString2(_)
toString2(n) == IF n < 2 THEN <<n>> ELSE Append(toString2(n \div 2), n % 2)

\* s.padStart(width, '0')
RECURSIVE padStart0(_, _)
padStart0(s, width) == IF Len(s) >= width THEN s ELSE padStart0(<<0>> \o s, width)

\* parseInt(digits, 2) for a string of binary digits, read left to right
RECURSIVE parseInt2Acc(_, _, _)
parseInt2Acc(digits, k, acc) ==
    IF k > Len(digits) THEN acc ELSE parseInt2Acc(digits, k + 1, 2 * acc + digits[k])

\* a variant that reads the digits right to left
parseInt2Lsb(digits) == parseInt2Acc([k \in 1..Len(digits) |-> digits[Len(digits) + 1 - k]], 1, 0)

\* a variant without the radix: the digits read as a decimal number
RECURSIVE parseInt10Acc(_, _, _)
parseInt10Acc(digits, k, acc) ==
    IF k > Len(digits) THEN acc ELSE parseInt10Acc(digits, k + 1, 10 * acc + digits[k])

parseInt10(digits) == parseInt10Acc(digits, 1, 0)

parseInt2(digits) == parseInt2Acc(digits, 1, 0)

\* the concatenation of parts[lo], ..., parts[hi]
RECURSIVE concatRange(_, _, _)
concatRange(parts, lo, hi) ==
    IF lo > hi THEN <<>>
    ELSE IF lo = hi THEN parts[lo]
    ELSE LET mid == (lo + hi) \div 2
         IN  concatRange(parts, lo, mid) \o concatRange(parts, mid + 1, hi)

concat(parts) == concatRange(parts, 1, Len(parts))

(***************************************************************************)
(* encodeToInvisible                                                       *)
(***************************************************************************)
\* a variant that drops the padding to 8 digits
byteSymbolsUnpadded(byte) ==
    LET binary == toString2(byte)
    IN  [k \in 1..Len(binary) |-> IF binary[k] = 0 THEN ZERO ELSE ONE]

\* a variant that emits the least significant bit first
byteSymbolsLsbFirst(byte) ==
    LET binary == padStart0(toString2(byte), 8)
    IN  [k \in 1..Len(binary) |-> IF binary[Len(binary) + 1 - k] = 0 THEN ZERO ELSE ONE]

\* a variant whose two characters are each one code point too high
byteSymbolsShifted(byte) ==
    LET binary == padStart0(toString2(byte), 8)
    IN  [k \in 1..Len(binary) |-> IF binary[k] = 0 THEN ONE ELSE COMPRESS_BEFORE]

\* the inner loop: the 8 symbols of one byte
byteSymbols(byte) ==
    LET binary == padStart0(toString2(byte), 8)
    IN  [k \in 1..Len(binary) |-> IF binary[k] = 0 THEN ZERO ELSE ONE]

\* the outer loop appends the symbols of buffer[0], buffer[1], ... to result
encodeToInvisible(buffer) == concat([i \in 1..Len(buffer) |-> byteSymbols(buffer[i])])

(***************************************************************************)
(* decodeFromInvisible                                                     *)
(***************************************************************************)
\* a variant that looks for the markers in the wrong order of preference
markerOfSwapped(encodedStr) ==
    IF startsWith(encodedStr, COMPRESS_BEFORE) THEN "AFTER"
    ELSE IF startsWith(encodedStr, COMPRESS_AFTER) THEN "BEFORE"
    ELSE "null"

\* compressionMethod after the marker test
markerOf(encodedStr) ==
    IF startsWith(encodedStr, COMPRESS_BEFORE) THEN "BEFORE"
    ELSE IF startsWith(encodedStr, COMPRESS_AFTER) THEN "AFTER"
    ELSE "null"

\* cleanEncoded after the marker test
cleanOf(encodedStr) ==
    IF startsWith(encodedStr, COMPRESS_BEFORE) THEN slice1(encodedStr)
    ELSE IF startsWith(encodedStr, COMPRESS_AFTER) THEN slice1(encodedStr)
    ELSE encodedStr

\* a variant that reads every character other than ONE as the bit 0
RECURSIVE groupBitsLenient(_, _, _, _)
groupBitsLenient(cleanEncoded, i, j, byte) ==
    IF j < 8 /\ i + j < Len(cleanEncoded)
    THEN LET char == cleanEncoded[i + j + 1]
         IN  groupBitsLenient(cleanEncoded, i, j + 1,
                 IF char = ONE THEN Append(byte, 1) ELSE Append(byte, 0))
    ELSE byte

\* the inner loop: j < 8 && i + j < cleanEncoded.length
RECURSIVE groupBits(_, _, _, _)
groupBits(cleanEncoded, i, j, byte) ==
    IF j < 8 /\ i + j < Len(cleanEncoded)
    THEN LET char == cleanEncoded[i + j + 1]
         IN  groupBits(cleanEncoded, i, j + 1,
                 IF char = ZERO THEN Append(byte, 0)
                 ELSE IF char = ONE THEN Append(byte, 1)
                 ELSE byte)
    ELSE byte

\* a variant that also pushes a byte for a short last group
pushGroupAlways(byte) == IF Len(byte) >= 1 THEN <<parseInt2(byte)>> ELSE <<>>

\* if (byte.length === 8) bytes.push(parseInt(byte, 2)): what one group pushes
pushGroup(byte) == IF Len(byte) = 8 THEN <<parseInt2(byte)>> ELSE <<>>

\* the outer loop, i = 0, 8, 16, ... while i < cleanEncoded.length
decodeLoop(cleanEncoded) ==
    concat([g \in 1..((Len(cleanEncoded) + 7) \div 8) |->
               pushGroup(groupBits(cleanEncoded, 8 * (g - 1), 0, <<>>))])

decodeFromInvisible(encodedStr) ==
    [buffer |-> decodeLoop(cleanOf(encodedStr)),
     compressionMethod |-> markerOf(encodedStr)]

(***************************************************************************)
(* UTF-8: Buffer.from(str, 'utf8') / writeFileSync(f, str, 'utf8') and     *)
(* readFileSync(f, 'utf8') / buffer.toString('utf8').                      *)
(***************************************************************************)
REPLACEMENT == 65533

\* the bytes of one code unit (a lone surrogate is written as U+FFFD)
utf8Unit(c) ==
    IF c < 128 THEN <<c>>
    ELSE IF c < 2048 THEN <<192 + (c \div 64), 128 + (c % 64)>>
    ELSE IF c >= 55296 /\ c <= 57343 THEN <<239, 191, 189>>
    ELSE <<224 + (c \div 4096), 128 + ((c \div 64) % 64), 128 + (c % 64)>>

utf8Encode(str) == concat([k \in 1..Len(str) |-> utf8Unit(str[k])])

\* is bytes[k] present and within lo..hi
byteIn(bytes, k, lo, hi) == k >= 1 /\ k <= Len(bytes) /\ bytes[k] >= lo /\ bytes[k] <= hi

\* the range a lead byte allows for the byte after it
secondLo(b) == IF b = 224 THEN 160 ELSE IF b = 240 THEN 144 ELSE 128
secondHi(b) == IF b = 237 THEN 159 ELSE IF b = 244 THEN 143 ELSE 191

\* how many bytes a well-formed sequence led by b has after b
trailCount(b) ==
    IF b >= 194 /\ b <= 223 THEN 1
    ELSE IF b >= 224 /\ b <= 239 THEN 2
    ELSE IF b >= 240 /\ b <= 244 THEN 3
    ELSE 0

\* how many bytes after the lead at k the decoder consumes with it: the longest
\* prefix of a well-formed sequence
consumedAfter(bytes, k) ==
    LET b == bytes[k]
        n == trailCount(b)
    IN  IF n = 0 \/ ~byteIn(bytes, k + 1, secondLo(b), secondHi(b)) THEN 0
        ELSE IF n = 1 \/ ~byteIn(bytes, k + 2, 128, 191) THEN 1
        ELSE IF n = 2 \/ ~byteIn(bytes, k + 3, 128, 191) THEN 2
        ELSE 3

\* does a decoding step start at k: k is not consumed with a lead before it
unitStartsAt(bytes, k) ==
    \A d \in 1..3 : ~(k - d >= 1 /\ consumedAfter(bytes, k - d) >= d)

\* the code units of the step that starts at k: the character of a whole
\* sequence, or U+FFFD for an ill-formed part
unitAt(bytes, k) ==
    LET b == bytes[k]
        n == trailCount(b)
        got == consumedAfter(bytes, k)
    IN  IF b < 128 THEN <<b>>
        ELSE IF n = 0 \/ got < n THEN <<REPLACEMENT>>
        ELSE IF n = 1 THEN <<(b - 192) * 64 + (bytes[k + 1] - 128)>>
        ELSE IF n = 2
        THEN <<(b - 224) * 4096 + (bytes[k + 1] - 128) * 64 + (bytes[k + 2] - 128)>>
        ELSE LET cp == (b - 240) * 262144 + (bytes[k + 1] - 128) * 4096
                       + (bytes[k + 2] - 128) * 64 + (bytes[k + 3] - 128) - 65536
             IN  <<55296 + (cp \div 1024), 56320 + (cp % 1024)>>

\* the decoder replaces every maximal ill-formed part by one U+FFFD
utf8Decode(bytes) ==
    concat([k \in 1..Len(bytes) |->
               IF unitStartsAt(bytes, k) THEN unitAt(bytes, k) ELSE <<>>])

(***************************************************************************)
(* compressBuffer / brotliDecompress.  zlib's Brotli is a library outside  *)
(* the repository; it is modelled by its contract: a lossless compressor   *)
(* whose decompressor rejects what is not a well-formed stream.  The       *)
(* variable codec picks one of three such compressors, so that the sizes a *)
(* compressor returns are not fixed by the model:                          *)
(*   "rle"     header, then (count, byte) pairs, one per run               *)
(*   "rle3"    header, then (count, 3 bytes) groups, one per run of equal  *)
(*             3-byte units, then the last 0..2 bytes unchanged            *)
(*   "stored"  header, then the input unchanged                            *)
(* BROTLI_OPTIONS leaves the window at its default of 22 bits, which a     *)
(* Brotli stream announces in the low four bits 1011 of its first byte.    *)
(***************************************************************************)
CodecKinds == {"rle", "rle3", "stored"}

BROTLI_HEADER == 11

\* how many bytes equal to buffer[k] stand right before it
RECURSIVE runBefore(_, _, _)
runBefore(buffer, k, n) ==
    IF k - n - 1 >= 1 /\ buffer[k - n - 1] = buffer[k]
    THEN runBefore(buffer, k, n + 1)
    ELSE n

\* length of the run of equal bytes that starts at buffer[k], at most 255
RECURSIVE runLength(_, _, _)
runLength(buffer, k, n) ==
    IF k + n <= Len(buffer) /\ buffer[k + n] = buffer[k] /\ n < 255
    THEN runLength(buffer, k, n + 1)
    ELSE n

\* one (count, byte) pair per run, a run longer than 255 in pieces of 255
rleEncode(buffer) ==
    concat([k \in 1..Len(buffer) |->
               IF runBefore(buffer, k, 0) % 255 = 0
               THEN <<runLength(buffer, k, 1), buffer[k]>>
               ELSE <<>>])

\* the runs of the pairs that follow the header
rleDecode(bytes) ==
    concat([p \in 1..((Len(bytes) - 1) \div 2) |->
               [m \in 1..bytes[2 * p] |-> bytes[2 * p + 1]]])

\* a well-formed "rle" body: whole pairs, no empty run
rleWellFormed(bytes) ==
    /\ (Len(bytes) - 1) % 2 = 0
    /\ \A k \in 2..Len(bytes) : (k % 2 = 0) => bytes[k] >= 1

\* the k-th 3-byte unit of buffer
unit3(buffer, k) == SubSeq(buffer, 3 * k - 2, 3 * k)

\* how many units equal to unit k stand right before it
RECURSIVE runBefore3(_, _, _)
runBefore3(buffer, k, n) ==
    IF k - n - 1 >= 1 /\ unit3(buffer, k - n - 1) = unit3(buffer, k)
    THEN runBefore3(buffer, k, n + 1)
    ELSE n

\* length of the run of equal units that starts at unit k, at most 255
RECURSIVE runLength3(_, _, _)
runLength3(buffer, k, n) ==
    IF 3 * (k + n) <= Len(buffer) /\ unit3(buffer, k + n) = unit3(buffer, k) /\ n < 255
    THEN runLength3(buffer, k, n + 1)
    ELSE n

\* one (count, unit) group per run of whole units, then the bytes left over
rle3Encode(buffer) ==
    concat([k \in 1..(Len(buffer) \div 3) |->
               IF runBefore3(buffer, k, 0) % 255 = 0
               THEN <<runLength3(buffer, k, 1)>> \o unit3(buffer, k)
               ELSE <<>>])
    \o SubSeq(buffer, 3 * (Len(buffer) \div 3) + 1, Len(buffer))

\* the runs of the groups that follow the header, then the bytes left over
rle3Decode(bytes) ==
    LET groups == (Len(bytes) - 1) \div 4
    IN  concat([p \in 1..groups |->
                   concat([m \in 1..bytes[4 * p - 2] |-> SubSeq(bytes, 4 * p - 1, 4 * p + 1)])])
        \o SubSeq(bytes, 4 * groups + 2, Len(bytes))

\* a well-formed "rle3" body: whole groups, at most 2 bytes left over, no empty run
rle3WellFormed(bytes) ==
    /\ (Len(bytes) - 1) % 4 # 3
    /\ \A p \in 1..((Len(bytes) - 1) \div 4) : bytes[4 * p - 2] >= 1

compressBuffer(kind, buffer) ==
    IF kind = "rle"
    THEN <<BROTLI_HEADER>> \o rleEncode(buffer)
    ELSE IF kind = "rle3"
    THEN <<BROTLI_HEADER>> \o rle3Encode(buffer)
    ELSE <<BROTLI_HEADER>> \o buffer

\* [ok |-> FALSE] is the rejected promise of brotliDecompress
brotliDecompress(kind, bytes) ==
    IF Len(bytes) = 0 \/ bytes[1] # BROTLI_HEADER
    THEN [ok |-> FALSE, out |-> <<>>]
    ELSE IF kind = "rle"
    THEN IF rleWellFormed(bytes)
         THEN [ok |-> TRUE, out |-> rleDecode(bytes)]
         ELSE [ok |-> FALSE, out |-> <<>>]
    ELSE IF kind = "rle3"
    THEN IF rle3WellFormed(bytes)
         THEN [ok |-> TRUE, out |-> rle3Decode(bytes)]
         ELSE [ok |-> FALSE, out |-> <<>>]
    ELSE [ok |-> TRUE, out |-> slice1(bytes)]

(***************************************************************************)
(* generateRunnableTemplate(encodedContent, originalFileName, ...) and the *)
(* program it generates.  The template is the text of the source file,     *)
(* character by character, with its two interpolations.                    *)
(***************************************************************************)
\* the template up to and including 'const n=`'
TEMPLATE_HEAD ==
    <<35, 33, 47, 117, 115, 114, 47, 98, 105, 110, 47, 101, 110, 118, 32, 110, 111,
      100, 101, 10, 47, 47, 32, 83, 101, 108, 102, 45, 101, 120, 116, 114, 97, 99,
      116, 105, 110, 103, 32, 101, 120, 101, 99, 117, 116, 97, 98, 108, 101, 32, 103,
      101, 110, 101, 114, 97, 116, 101, 100, 32, 98, 121, 32, 105, 110, 118, 106, 115,
      105, 98, 108, 101, 10, 99, 111, 110, 115, 116, 32, 102, 115, 61, 114, 101, 113,
      117, 105, 114, 101, 40, 39, 102, 115, 39, 41, 44, 112, 61, 114, 101, 113, 117,
      105, 114, 101, 40, 39, 112, 97, 116, 104, 39, 41, 44, 122, 61, 114, 101, 113,
      117, 105, 114, 101, 40, 39, 122, 108, 105, 98, 39, 41, 44, 123, 112, 114, 111,
      109, 105, 115, 105, 102, 121, 58, 117, 125, 61, 114, 101, 113, 117, 105, 114, 101,
      40, 39, 117, 116, 105, 108, 39, 41, 44, 123, 101, 120, 101, 99, 83, 121, 110,
      99, 58, 101, 44, 115, 112, 97, 119, 110, 58, 115, 125, 61, 114, 101, 113, 117,
      105, 114, 101, 40, 39, 99, 104, 105, 108, 100, 95, 112, 114, 111, 99, 101, 115,
      115, 39, 41, 44, 111, 61, 114, 101, 113, 117, 105, 114, 101, 40, 39, 111, 115,
      39, 41, 44, 98, 61, 117, 40, 122, 46, 98, 114, 111, 116, 108, 105, 68, 101,
      99, 111, 109, 112, 114, 101, 115, 115, 41, 44, 99, 61, 123, 90, 58, 39, 8218,
      196, 227, 39, 44, 79, 58, 39, 8218, 196, 229, 39, 44, 66, 58, 39, 8218, 196,
      231, 39, 125, 59, 97, 115, 121, 110, 99, 32, 102, 117, 110, 99, 116, 105, 111,
      110, 32, 120, 40, 41, 123, 116, 114, 121, 123, 99, 111, 110, 115, 116, 32, 110,
      61, 96>>

\* from the closing ` of n to p.extname('
TEMPLATE_MID ==
    <<96, 44, 103, 61, 116, 61, 62, 123, 108, 101, 116, 32, 114, 61, 91, 93, 44,
      105, 61, 48, 59, 102, 111, 114, 40, 59, 105, 60, 116, 46, 108, 101, 110, 103,
      116, 104, 59, 105, 43, 61, 56, 41, 123, 108, 101, 116, 32, 97, 61, 39, 39,
      59, 102, 111, 114, 40, 108, 101, 116, 32, 106, 61, 48, 59, 106, 60, 56, 38,
      38, 105, 43, 106, 60, 116, 46, 108, 101, 110, 103, 116, 104, 59, 106, 43, 43,
      41, 97, 43, 61, 116, 91, 105, 43, 106, 93, 61, 61, 61, 99, 46, 90, 63,
      39, 48, 39, 58, 39, 49, 39, 59, 97, 46, 108, 101, 110, 103, 116, 104, 61,
      61, 61, 56, 38, 38, 114, 46, 112, 117, 115, 104, 40, 112, 97, 114, 115, 101,
      73, 110, 116, 40, 97, 44, 50, 41, 41, 125, 114, 101, 116, 117, 114, 110, 32,
      66, 117, 102, 102, 101, 114, 46, 102, 114, 111, 109, 40, 114, 41, 125, 44, 100,
      61, 110, 91, 48, 93, 61, 61, 61, 99, 46, 66, 63, 97, 119, 97, 105, 116,
      32, 98, 40, 103, 40, 110, 46, 115, 108, 105, 99, 101, 40, 49, 41, 41, 41,
      58, 103, 40, 110, 41, 44, 116, 61, 112, 46, 101, 120, 116, 110, 97, 109, 101,
      40, 39>>

\* from the closing ' of the file name to the end
TEMPLATE_TAIL ==
    <<39, 41, 46, 116, 111, 76, 111, 119, 101, 114, 67, 97, 115, 101, 40, 41, 44,
      102, 61, 112, 46, 106, 111, 105, 110, 40, 111, 46, 116, 109, 112, 100, 105, 114,
      40, 41, 44, 96, 105, 36, 123, 68, 97, 116, 101, 46, 110, 111, 119, 40, 41,
      125, 36, 123, 116, 125, 96, 41, 59, 102, 115, 46, 119, 114, 105, 116, 101, 70,
      105, 108, 101, 83, 121, 110, 99, 40, 102, 44, 100, 41, 59, 116, 114, 121, 123,
      105, 102, 40, 116, 61, 61, 61, 39, 46, 106, 115, 39, 124, 124, 116, 61, 61,
      61, 39, 46, 109, 106, 115, 39, 41, 114, 101, 113, 117, 105, 114, 101, 40, 102,
      41, 59, 101, 108, 115, 101, 32, 105, 102, 40, 116, 61, 61, 61, 39, 46, 115,
      104, 39, 124, 124, 116, 61, 61, 61, 39, 46, 98, 97, 115, 104, 39, 41, 101,
      40, 96, 98, 97, 115, 104, 32, 34, 36, 123, 102, 125, 34, 96, 44, 123, 115,
      116, 100, 105, 111, 58, 39, 105, 110, 104, 101, 114, 105, 116, 39, 125, 41, 59,
      101, 108, 115, 101, 32, 105, 102, 40, 116, 61, 61, 61, 39, 46, 112, 121, 39,
      41, 101, 40, 96, 112, 121, 116, 104, 111, 110, 51, 32, 34, 36, 123, 102, 125,
      34, 96, 44, 123, 115, 116, 100, 105, 111, 58, 39, 105, 110, 104, 101, 114, 105,
      116, 39, 125, 41, 59, 101, 108, 115, 101, 32, 105, 102, 40, 116, 61, 61, 61,
      39, 46, 114, 98, 39, 41, 101, 40, 96, 114, 117, 98, 121, 32, 34, 36, 123,
      102, 125, 34, 96, 44, 123, 115, 116, 100, 105, 111, 58, 39, 105, 110, 104, 101,
      114, 105, 116, 39, 125, 41, 59, 101, 108, 115, 101, 32, 105, 102, 40, 33, 116,
      124, 124, 116, 61, 61, 61, 39, 46, 116, 120, 116, 39, 41, 99, 111, 110, 115,
      111, 108, 101, 46, 108, 111, 103, 40, 100, 46, 116, 111, 83, 116, 114, 105, 110,
      103, 40, 39, 117, 116, 102, 56, 39, 41, 41, 59, 101, 108, 115, 101, 123, 102,
      115, 46, 99, 104, 109, 111, 100, 83, 121, 110, 99, 40, 102, 44, 39, 55, 53,
      53, 39, 41, 59, 114, 101, 116, 117, 114, 110, 32, 118, 111, 105, 100, 32, 115,
      40, 102, 44, 112, 114, 111, 99, 101, 115, 115, 46, 97, 114, 103, 118, 46, 115,
      108, 105, 99, 101, 40, 50, 41, 44, 123, 115, 116, 100, 105, 111, 58, 39, 105,
      110, 104, 101, 114, 105, 116, 39, 125, 41, 46, 111, 110, 40, 39, 101, 120, 105,
      116, 39, 44, 99, 61, 62, 40, 102, 115, 46, 117, 110, 108, 105, 110, 107, 83,
      121, 110, 99, 40, 102, 41, 44, 112, 114, 111, 99, 101, 115, 115, 46, 101, 120,
      105, 116, 40, 99, 41, 41, 41, 125, 102, 115, 46, 117, 110, 108, 105, 110, 107,
      83, 121, 110, 99, 40, 102, 41, 125, 99, 97, 116, 99, 104, 40, 114, 41, 123,
      102, 115, 46, 117, 110, 108, 105, 110, 107, 83, 121, 110, 99, 40, 102, 41, 44,
      99, 111, 110, 115, 111, 108, 101, 46, 101, 114, 114, 111, 114, 40, 39, 69, 120,
      101, 99, 117, 116, 105, 111, 110, 32, 101, 114, 114, 111, 114, 58, 39, 44, 114,
      46, 109, 101, 115, 115, 97, 103, 101, 41, 44, 112, 114, 111, 99, 101, 115, 115,
      46, 101, 120, 105, 116, 40, 49, 41, 125, 125, 99, 97, 116, 99, 104, 40, 114,
      41, 123, 99, 111, 110, 115, 111, 108, 101, 46, 101, 114, 114, 111, 114, 40, 39,
      69, 120, 116, 114, 97, 99, 116, 105, 111, 110, 32, 101, 114, 114, 111, 114, 58,
      39, 44, 114, 46, 109, 101, 115, 115, 97, 103, 101, 41, 44, 112, 114, 111, 99,
      101, 115, 115, 46, 101, 120, 105, 116, 40, 49, 41, 125, 125, 120, 40, 41, 59>>

generateRunnableTemplate(encodedContent, originalFileName) ==
    TEMPLATE_HEAD \o encodedContent \o TEMPLATE_MID \o originalFileName \o TEMPLATE_TAIL

\* c={Z:'...',O:'...',B:'...'}: the three string literals as the template holds them
template_c ==
    [Z |-> SubSeq(TEMPLATE_HEAD, 255, 257),
     O |-> SubSeq(TEMPLATE_HEAD, 263, 265),
     B |-> SubSeq(TEMPLATE_HEAD, 271, 273)]

\* t[i+j]===c.Z?'0':'1', char being the one-character string t[i+j]
bitCharOf(char) == IF char = template_c.Z THEN 0 ELSE 1

\* g=t=>{...}: 8 characters a byte, a short last group dropped
template_g(t) ==
    concat([grp \in 1..((Len(t) + 7) \div 8) |->
               LET i == 8 * (grp - 1)
                   last == IF i + 8 <= Len(t) THEN 8 ELSE Len(t) - i
                   a == [j \in 1..last |-> bitCharOf(<<t[i + j]>>)]
               IN  IF Len(a) = 8 THEN <<parseInt2(a)>> ELSE <<>>])

\* d=n[0]===c.B?await b(g(n.slice(1))):g(n); [ok |-> FALSE] is the rejected b
template_d(kind, n) ==
    IF Len(n) >= 1 /\ <<n[1]>> = template_c.B
    THEN brotliDecompress(kind, template_g(slice1(n)))
    ELSE [ok |-> TRUE, out |-> template_g(n)]

(***************************************************************************)
(* encode(inputFile, outputFile, {compress, runable})                      *)
(***************************************************************************)
\* outputFile null: no path was given
nullPath == ""

\* the records of a call that was not made
NoEncode ==
    [called |-> FALSE, threw |-> FALSE, compressFailed |-> FALSE, compress |-> FALSE,
     runable |-> FALSE, outputFile |-> nullPath, original |-> <<>>, finalSizeMethod1 |-> 0, finalSizeMethod2 |-> 0,
     finalSizeNoCompression |-> 0, methodUsed |-> "NONE", finalContent |-> <<>>,
     written |-> <<>>, savedSize |-> 0]

NoDecode ==
    [called |-> FALSE, exited |-> FALSE, threw |-> FALSE, input |-> <<>>,
     isRunnable |-> FALSE, compressionDetected |-> "NONE", encodedContent |-> <<>>,
     compressionMethod |-> "null", inflations |-> 0, stages |-> <<>>,
     finalBuffer |-> <<>>]

\* a selection that does not look at the compress option
selectMethodIgnoresFlag(compress, runable, finalSizeMethod1, finalSizeMethod2) ==
    IF runable \/ finalSizeMethod1 <= finalSizeMethod2
    THEN "COMPRESS_BEFORE"
    ELSE "COMPRESS_AFTER"

\* a selection that prefers the larger compressed candidate
selectMethodReversed(compress, runable, finalSizeMethod1, finalSizeMethod2) ==
    IF compress
    THEN IF runable \/ finalSizeMethod1 >= finalSizeMethod2
         THEN "COMPRESS_BEFORE"
         ELSE "COMPRESS_AFTER"
    ELSE "NONE"

\* a selection by size alone, runnable or not
selectMethodBySizeOnly(compress, runable, finalSizeMethod1, finalSizeMethod2) ==
    IF compress
    THEN IF finalSizeMethod1 <= finalSizeMethod2
         THEN "COMPRESS_BEFORE"
         ELSE "COMPRESS_AFTER"
    ELSE "NONE"

\* SAVE FILE: methodUsed
selectMethod(compress, runable, finalSizeMethod1, finalSizeMethod2) ==
    IF compress
    THEN IF runable \/ finalSizeMethod1 <= finalSizeMethod2
         THEN "COMPRESS_BEFORE"
         ELSE "COMPRESS_AFTER"
    ELSE "NONE"

\* a variant that forgets the marker
finalContentNoMarker(methodUsed, encodedCompressedBefore, encodedOriginal, encodedWithoutCompression) ==
    IF methodUsed = "COMPRESS_BEFORE" THEN encodedCompressedBefore
    ELSE IF methodUsed = "COMPRESS_AFTER" THEN encodedOriginal
    ELSE encodedWithoutCompression

\* SAVE FILE: finalContent
finalContentOf(methodUsed, encodedCompressedBefore, encodedOriginal, encodedWithoutCompression) ==
    IF methodUsed = "COMPRESS_BEFORE" THEN <<COMPRESS_BEFORE>> \o encodedCompressedBefore
    ELSE IF methodUsed = "COMPRESS_AFTER" THEN <<COMPRESS_AFTER>> \o encodedOriginal
    ELSE encodedWithoutCompression

\* normal mode: the bytes handed to writeFileSync
writtenBytes(kind, compress, methodUsed, finalContent) ==
    IF compress /\ methodUsed = "COMPRESS_AFTER"
    THEN compressBuffer(kind, utf8Encode(finalContent))
    ELSE utf8Encode(finalContent)

\* The whole call.  failAt names the compressBuffer call whose promise is
\* rejected (0: none); a rejection is not caught anywhere in encode, and neither
\* is the TypeError of fs.writeFileSync for a path that is null.
encode(kind, originalBuffer, originalFileName, outputFile, compress, runable, failAt) ==
    LET compressedBeforeBuffer == compressBuffer(kind, originalBuffer)
        encodedCompressedBefore == encodeToInvisible(compressedBeforeBuffer)
        finalSizeMethod1 == Len(utf8Encode(encodedCompressedBefore))
        encodedOriginal == encodeToInvisible(originalBuffer)
        encodedOriginalBuffer == utf8Encode(encodedOriginal)
        compressedAfterBuffer == compressBuffer(kind, encodedOriginalBuffer)
        finalSizeMethod2 == Len(compressedAfterBuffer)
        encodedWithoutCompression == encodeToInvisible(originalBuffer)
        finalSizeNoCompression == Len(utf8Encode(encodedWithoutCompression))
        methodUsed == selectMethod(compress, runable, finalSizeMethod1, finalSizeMethod2)
        finalContent == finalContentOf(methodUsed, encodedCompressedBefore,
                                       encodedOriginal, encodedWithoutCompression)
        runnableContent == generateRunnableTemplate(finalContent, originalFileName)
        written == IF runable
                   THEN utf8Encode(runnableContent)
                   ELSE writtenBytes(kind, compress, methodUsed, finalContent)
        compressFailed ==
            \/ failAt = 1
            \/ failAt = 2
            \/ failAt = 3 /\ ~runable /\ compress /\ methodUsed = "COMPRESS_AFTER"
        threw == compressFailed \/ outputFile = nullPath
    IN  IF threw
        THEN [NoEncode EXCEPT !.called = TRUE, !.threw = TRUE,
                              !.compressFailed = compressFailed,
                              !.compress = compress, !.runable = runable,
                              !.outputFile = outputFile, !.original = originalBuffer]
        ELSE [called |-> TRUE,
              threw |-> FALSE,
              compressFailed |-> FALSE,
              compress |-> compress,
              runable |-> runable,
              outputFile |-> outputFile,
              original |-> originalBuffer,
              finalSizeMethod1 |-> finalSizeMethod1,
              finalSizeMethod2 |-> finalSizeMethod2,
              finalSizeNoCompression |-> finalSizeNoCompression,
              methodUsed |-> methodUsed,
              finalContent |-> finalContent,
              written |-> written,
              savedSize |-> Len(written)]

(***************************************************************************)
(* decode(inputFile, outputFile)                                           *)
(***************************************************************************)
\* '// Self-extracting executable generated by invjsible'
SIGNATURE ==
    <<47, 47, 32, 83, 101, 108, 102, 45, 101, 120, 116, 114, 97, 99, 116, 105, 110,
      103, 32, 101, 120, 101, 99, 117, 116, 97, 98, 108, 101, 32, 103, 101, 110, 101,
      114, 97, 116, 101, 100, 32, 98, 121, 32, 105, 110, 118, 106, 115, 105, 98, 108,
      101>>

\* 'const n=`' of the pattern /const n=`([^`]+)`/s
CONST_N == <<99, 111, 110, 115, 116, 32, 110, 61, 96>>

BACKTICK == 96

\* does pat occur in s at position k
occursAt(s, pat, k) ==
    k + Len(pat) - 1 <= Len(s) /\ \A m \in 1..Len(pat) : s[k + m - 1] = pat[m]

\* s.includes(pat)
includes(s, pat) == \E k \in 1..(Len(s) + 1) : occursAt(s, pat, k)

\* length of the run of characters other than ` that starts at s[k]
notTickRun(s, k) ==
    LET ticks == {j \in k..Len(s) : s[j] = BACKTICK}
    IN  IF ticks = {} THEN Len(s) - k + 1
        ELSE (CHOOSE j \in ticks : \A m \in ticks : j <= m) - k

\* the matches of a pattern that does not ask for the closing `
matchStartsUnclosed(s) ==
    {k \in 1..Len(s) :
        /\ occursAt(s, CONST_N, k)
        /\ notTickRun(s, k + Len(CONST_N)) >= 1}

\* the positions at which /const n=`([^`]+)`/s matches
matchStarts(s) ==
    {k \in 1..Len(s) :
        /\ occursAt(s, CONST_N, k)
        /\ LET n == notTickRun(s, k + Len(CONST_N))
           IN  n >= 1 /\ k + Len(CONST_N) + n <= Len(s)}

\* match[1] of the leftmost match
matchGroup(s) ==
    LET k == CHOOSE x \in matchStarts(s) : \A y \in matchStarts(s) : x <= y
        n == notTickRun(s, k + Len(CONST_N))
    IN  SubSeq(s, k + Len(CONST_N), k + Len(CONST_N) + n - 1)

\* a detection that never takes a file for a compressed one
needsAfterProbeNever(encodedContent) == FALSE

\* "Detect if file is compressed as COMPRESS_AFTER"
needsAfterProbe(encodedContent) ==
    /\ ~startsWith(encodedContent, COMPRESS_BEFORE)
    /\ ~startsWith(encodedContent, ZERO)
    /\ ~startsWith(encodedContent, ONE)

\* The whole call.  exited: process.exit(1) after 'Could not extract content';
\* threw: the rejected brotliDecompress of the decoded buffer.
\* a decoder that decompresses after any marker
decompressAfterAnyMarker(compressionMethod) == compressionMethod # "null"

\* "Decompress if necessary": compressionMethod === 'BEFORE'
decompressNeeded(compressionMethod) == compressionMethod = "BEFORE"

decode(kind, fileBytes) ==
    LET fileText == utf8Decode(fileBytes)
        isRunnable == includes(fileText, SIGNATURE)
        exited == isRunnable /\ matchStarts(fileText) = {}
        extracted == IF isRunnable /\ ~exited THEN matchGroup(fileText) ELSE fileText
        probe == needsAfterProbe(extracted)
        probed == brotliDecompress(kind, fileBytes)
        compressionDetected == IF probe /\ probed.ok THEN "AFTER_DETECTED" ELSE "NONE"
        encodedContent == IF probe /\ probed.ok THEN utf8Decode(probed.out) ELSE extracted
        dec == decodeFromInvisible(encodedContent)
        inflated == brotliDecompress(kind, dec.buffer)
        needed == decompressNeeded(dec.compressionMethod)
        threw == ~exited /\ needed /\ ~inflated.ok
        finalBuffer == IF needed THEN inflated.out ELSE dec.buffer
        stages == (IF ~probe THEN <<>>
                   ELSE IF probed.ok THEN <<"decompress file">>
                   ELSE <<"decompress file (failed)">>)
                  \o <<"bit-decode">>
                  \o (IF ~needed THEN <<>>
                      ELSE IF inflated.ok THEN <<"decompress buffer">>
                      ELSE <<"decompress buffer (failed)">>)
    IN  [called |-> TRUE,
         exited |-> exited,
         threw |-> threw,
         input |-> fileBytes,
         isRunnable |-> isRunnable,
         compressionDetected |-> IF exited THEN "NONE" ELSE compressionDetected,
         encodedContent |-> IF exited THEN <<>> ELSE encodedContent,
         compressionMethod |-> IF exited THEN "null" ELSE dec.compressionMethod,
         inflations |-> IF exited THEN 0
                        ELSE (IF probe /\ probed.ok THEN 1 ELSE 0)
                             + (IF needed /\ inflated.ok THEN 1 ELSE 0),
         stages |-> IF exited THEN <<>> ELSE stages,
         finalBuffer |-> IF exited \/ threw THEN <<>> ELSE finalBuffer]

(***************************************************************************)
(* Inputs.                                                                 *)
(***************************************************************************)
SeqsUpTo(S, n) == UNION {[1..k -> S] : k \in 0..n}

\* buffers for the codec: 0x00/0xFF bytes, one position holding any byte value
BaseBytes == {0, 255}

Buffers ==
    LET base == SeqsUpTo(BaseBytes, MaxBufLen)
    IN  base \cup UNION {{[b EXCEPT ![p] = v] : p \in 1..Len(b), v \in Bytes} : b \in base}

\* strings for the decoder: a prefix, whole 8-symbol groups, a short tail, and
\* possibly one character replaced by one that is no data symbol
FOREIGN == 65

GroupValues == {0, 86, 255}

symbolOf(v, k) == IF (v \div (2 ^ (8 - k))) % 2 = 0 THEN ZERO ELSE ONE

groupOf(v) == [k \in 1..8 |-> symbolOf(v, k)]

RECURSIVE groupsOf(_)
groupsOf(vs) == IF vs = <<>> THEN <<>> ELSE groupOf(Head(vs)) \o groupsOf(Tail(vs))

Prefixes ==
    {<<>>, <<COMPRESS_BEFORE>>, <<COMPRESS_AFTER>>,
     <<COMPRESS_AFTER, COMPRESS_BEFORE>>, <<FOREIGN>>}

Tails == {SubSeq(groupOf(v), 1, n) : v \in GroupValues, n \in 0..7}

CleanStreams ==
    {p \o groupsOf(vs) \o tl :
        p \in Prefixes, vs \in SeqsUpTo(GroupValues, MaxGroups), tl \in Tails}

Streams ==
    CleanStreams \cup
    UNION {{[s EXCEPT ![p] = c] :
               p \in {1, 4, 8, 9} \cap DOMAIN s, c \in {FOREIGN, COMPRESS_BEFORE}} :
           s \in CleanStreams}

\* input files of encode()
InputBytes == {0, 65, 255}

AllByteValues == [i \in 1..256 |-> i - 1]

\* a file of repeated content: two runs of 3-byte units
RepeatedContent == <<0, 0, 0, 0, 0, 0, 255, 255, 255>>

Inputs ==
    SeqsUpTo(InputBytes, MaxLen) \cup {<<v>> : v \in Bytes}
    \cup {AllByteValues, RepeatedContent}

(***************************************************************************)
(* State.                                                                  *)
(***************************************************************************)
NoFile == <<-1>>

\* the paths of a run; in.encoded is inputFile + '.encoded'
FileNames == {"in", "out", "dec", "in.encoded"}

NoDecoded == [buffer |-> <<>>, compressionMethod |-> "null"]

CodecIdle ==
    /\ buf = <<>>
    /\ stream = <<>>
    /\ encoded = <<>>
    /\ decoded = NoDecoded
    /\ step = "idle"

NoExec == [called |-> FALSE, failed |-> FALSE, d |-> <<>>]

\* path.basename(file), as characters, of the files of the model
basename(file) ==
    IF file = "in" THEN <<105, 110>>
    ELSE IF file = "out" THEN <<111, 117, 116>>
    ELSE <<100, 101, 99>>

FilesIdle ==
    /\ codec = "rle"
    /\ fs = [f \in FileNames |-> NoFile]
    /\ encRes = NoEncode
    /\ decRes = NoDecode
    /\ outOrigin = "none"
    /\ encRes2 = NoEncode
    /\ execRes = NoExec

CallsIdle == calls = <<>>

\* a write that keeps what the file held and adds the data after it
appendFileSync(files, file, data) ==
    [files EXCEPT ![file] = IF @ = NoFile THEN data ELSE @ \o data]

\* fs.writeFileSync(file, data): the file holds data and nothing else
writeFileSync(files, file, data) == [files EXCEPT ![file] = data]

(***************************************************************************)
(* Paths and file names: strings of code units.                            *)
(***************************************************************************)
\* characters of paths and texts: '.', '/', 'a', 't', 'A', the line feed, and of
\* the class of removeInvisibles U+3000 (not in the dictionary) and U+00AD
CHAR ==
    [dot |-> 46, slash |-> 47, a |-> 97, t |-> 116, A |-> 65, lf |-> 10,
     ideographicSpace |-> 12288, softHyphen |-> 173]

\* the extensions '.encoded', '.decoded' and '.cleaned'
EXT ==
    [encoded |-> <<46, 101, 110, 99, 111, 100, 101, 100>>,
     decoded |-> <<46, 100, 101, 99, 111, 100, 101, 100>>,
     cleaned |-> <<46, 99, 108, 101, 97, 110, 101, 100>>]

\* s.endsWith(suffix)
endsWith(s, suffix) ==
    /\ Len(s) >= Len(suffix)
    /\ SubSeq(s, Len(s) - Len(suffix) + 1, Len(s)) = suffix

\* inputFile.replace(/\.encoded$/, replacement)
replaceEncoded(inputFile, replacement) ==
    IF endsWith(inputFile, EXT.encoded)
    THEN SubSeq(inputFile, 1, Len(inputFile) - Len(EXT.encoded)) \o replacement
    ELSE inputFile

\* "Generate output name" of decode, when no output file is given
decodeOutputRunnableBare(inputFile, isRunnable) ==
    IF endsWith(inputFile, EXT.encoded) THEN replaceEncoded(inputFile, EXT.decoded)
    ELSE IF isRunnable THEN replaceEncoded(inputFile, <<>>)
    ELSE inputFile \o EXT.decoded

decodeOutputFile(inputFile, isRunnable) ==
    IF endsWith(inputFile, EXT.encoded) THEN replaceEncoded(inputFile, EXT.decoded)
    ELSE IF isRunnable THEN replaceEncoded(inputFile, <<>>) \o EXT.decoded
    ELSE inputFile \o EXT.decoded

\* where /(\.[^.]+)$/ matches: at the last dot, if a character follows it
extensionStart(inputFile) ==
    LET dots == {i \in 1..Len(inputFile) : inputFile[i] = CHAR.dot}
    IN  IF dots = {} THEN 0
        ELSE LET last == CHOOSE i \in dots : \A j \in dots : j <= i
             IN  IF last < Len(inputFile) THEN last ELSE 0

\* inputFile.replace(/(\.[^.]+)$/, '.cleaned$1')
cleanOutputFile(inputFile) ==
    LET at == extensionStart(inputFile)
    IN  IF at = 0 THEN inputFile
        ELSE SubSeq(inputFile, 1, at - 1) \o EXT.cleaned
             \o SubSeq(inputFile, at, Len(inputFile))

(***************************************************************************)
(* analyzeInvisibles, removeInvisibles, analyze and clean.                 *)
(***************************************************************************)
\* the code of every entry of invisibleChars.dictionary
dictionaryCodes ==
    {8203, 8204, 8205, 65279, 8206, 8207, 8234, 8235, 8236, 8237, 8238,
     8294, 8295, 8296, 8297, 160, 8288, 1564, 6158, 173, 847}

\* the i-th smallest member of a set of numbers
nth(S, i) == CHOOSE x \in S : Cardinality({y \in S : y <= x}) = i

\* analyzeInvisibles(text): the dictionary characters of the text, with their
\* zero-based positions, in the order of the text
analyzeInvisibles(text) ==
    LET at == {i \in 1..Len(text) : text[i] \in dictionaryCodes}
        positions == [k \in 1..Cardinality(at) |->
                         [position |-> nth(at, k) - 1, code |-> text[nth(at, k)]]]
    IN  [length |-> Len(text),
         hasInvisibles |-> at # {},
         invisibleCount |-> Cardinality(at),
         found |-> {text[i] : i \in at},
         positions |-> positions]

\* the character class of removeInvisibles
removedClass ==
    {173, 847, 1564, 1807, 4447, 4448, 6068, 6069} \cup (6155..6158)
    \cup (8203..8207) \cup (8234..8238) \cup (8288..8292) \cup (8294..8303)
    \cup {12644} \cup (65024..65039) \cup {65279, 65440} \cup (65529..65532)
    \cup {160, 5760} \cup (8192..8202) \cup {8239, 8287, 12288}

\* a replace without the g flag: the first character of the class goes only
removeFirstInvisible(text) ==
    LET at == {i \in 1..Len(text) : text[i] \in removedClass}
    IN  IF at = {} THEN text
        ELSE SubSeq(text, 1, nth(at, 1) - 1) \o SubSeq(text, nth(at, 1) + 1, Len(text))

\* removeInvisibles(text)
removeInvisibles(text) == SelectSeq(text, LAMBDA c : c \notin removedClass)

\* how many positions analyze prints at most
POSITIONS_SHOWN == 20

\* the positions printed when the limit is reached already
listingBelowLimit(positions) ==
    IF Len(positions) < POSITIONS_SHOWN
    THEN [heading |-> "all", listed |-> positions, more |-> -1]
    ELSE [heading |-> "first", listed |-> SubSeq(positions, 1, POSITIONS_SHOWN),
          more |-> Len(positions) - POSITIONS_SHOWN]

\* the positions analyze prints: which heading, which positions, and the number
\* of the closing line '... and N more' (-1: no such line)
listing(positions) ==
    IF Len(positions) <= POSITIONS_SHOWN
    THEN [heading |-> "all", listed |-> positions, more |-> -1]
    ELSE [heading |-> "first", listed |-> SubSeq(positions, 1, POSITIONS_SHOWN),
          more |-> Len(positions) - POSITIONS_SHOWN]

\* analyze(inputFile): what it prints for the bytes of the file
analyze(fileBytes) ==
    LET content == utf8Decode(fileBytes)
        analysis == analyzeInvisibles(content)
    IN  [content |-> content,
         contains |-> analysis.hasInvisibles,
         total |-> IF analysis.hasInvisibles THEN analysis.invisibleCount ELSE -1,
         types |-> IF analysis.hasInvisibles THEN Cardinality(analysis.found) ELSE -1,
         listing |-> IF analysis.hasInvisibles THEN listing(analysis.positions)
                     ELSE [heading |-> "none", listed |-> <<>>, more |-> -1]]

\* fs.writeFileSync(path, data), the files being kept by path
writePath(files, path, data) ==
    [p \in DOMAIN files \cup {path} |-> IF p = path THEN data ELSE files[p]]

\* clean(inputFile, outputFile): the files afterwards and what is printed
clean(files, inputFile, outputFile) ==
    LET content == utf8Decode(files[inputFile])
        originalSize == Len(content)
        cleaned == removeInvisibles(content)
        cleanedSize == Len(cleaned)
        removed == originalSize - cleanedSize
        out == IF outputFile = <<>> THEN cleanOutputFile(inputFile) ELSE outputFile
    IN  [files |-> writePath(files, out, utf8Encode(cleaned)),
         content |-> content,
         cleaned |-> cleaned,
         outputFile |-> out,
         removed |-> removed]

(***************************************************************************)
(* main: the command line.                                                 *)
(***************************************************************************)
\* the words of the command line ('bogus' stands for an unknown command):
\* help = 'help', helpLong = '--help', helpShort = '-h', encode = 'encode',
\* decode = 'decode', analyze = 'analyze', clean = 'clean', list = 'list',
\* compress = '--compress', runable = '--runable', output = '--output',
\* outputShort = '-o', bogus = 'bogus'
ARG ==
    [help |-> <<104, 101, 108, 112>>,
     helpLong |-> <<45, 45, 104, 101, 108, 112>>,
     helpShort |-> <<45, 104>>,
     encode |-> <<101, 110, 99, 111, 100, 101>>,
     decode |-> <<100, 101, 99, 111, 100, 101>>,
     analyze |-> <<97, 110, 97, 108, 121, 122, 101>>,
     clean |-> <<99, 108, 101, 97, 110>>,
     list |-> <<108, 105, 115, 116>>,
     compress |-> <<45, 45, 99, 111, 109, 112, 114, 101, 115, 115>>,
     runable |-> <<45, 45, 114, 117, 110, 97, 98, 108, 101>>,
     output |-> <<45, 45, 111, 117, 116, 112, 117, 116>>,
     outputShort |-> <<45, 111>>,
     bogus |-> <<98, 111, 103, 117, 115>>]

\* the commands that take a file
CliCommands == {ARG.encode, ARG.decode, ARG.analyze, ARG.clean}

\* what a run of main() did: the exit status, the kind of error message printed,
\* whether the help was printed, the command function that was called, and what
\* that command did
NoMain ==
    [called |-> FALSE, args |-> <<>>, status |-> 0, error |-> "none",
     help |-> FALSE, command |-> "none", inputFile |-> <<>>, outputFile |-> <<>>,
     before |-> <<>>, removed |-> -1, cleaned |-> <<>>,
     analysis |-> [content |-> <<>>, contains |-> FALSE, total |-> -1, types |-> -1,
                   listing |-> [heading |-> "none", listed |-> <<>>, more |-> -1]],
     dec |-> NoDecode, enc |-> NoEncode]

CliIdle ==
    /\ disk = <<>>
    /\ cli = NoMain

\* args.includes(word)
argsInclude(args, word) == \E i \in 1..Len(args) : args[i] = word

\* args.indexOf(word), counted from 1; 0 when the word is absent
indexOf(args, word) ==
    IF argsInclude(args, word)
    THEN CHOOSE i \in 1..Len(args) :
             args[i] = word /\ \A j \in 1..(i - 1) : args[j] # word
    ELSE 0

\* the value after --output or -o; the empty string when there is none
outputOption(args) ==
    LET outputIndex == IF indexOf(args, ARG.output) # 0
                       THEN indexOf(args, ARG.output)
                       ELSE indexOf(args, ARG.outputShort)
    IN  IF outputIndex # 0 /\ outputIndex + 1 <= Len(args) /\ args[outputIndex + 1] # <<>>
        THEN args[outputIndex + 1]
        ELSE <<>>

\* path.basename(inputFile)
pathBasename(inputFile) ==
    LET slashes == {i \in 1..Len(inputFile) : inputFile[i] = CHAR.slash}
    IN  IF slashes = {} THEN inputFile
        ELSE SubSeq(inputFile, (CHOOSE i \in slashes : \A j \in slashes : j <= i) + 1,
                    Len(inputFile))

\* case 'encode', r being what the call of encode did
mainEncode(args, files, outputFile, r) ==
    [cli |-> [NoMain EXCEPT !.called = TRUE, !.args = args,
                            !.status = IF r.threw THEN 1 ELSE 0,
                            !.error = IF r.threw THEN "exception" ELSE "none",
                            !.command = "encode", !.inputFile = args[2],
                            !.outputFile = outputFile,
                            !.before = files[args[2]], !.enc = r],
     files |-> IF r.threw THEN files ELSE writePath(files, outputFile, r.written)]

\* case 'decode', with decode's own choice of the output name, r being what
\* the call of decode did up to there
mainDecode(args, files, r) ==
    LET inputFile == args[2]
        outputFile == IF outputOption(args) # <<>> THEN outputOption(args)
                      ELSE decodeOutputFile(inputFile, r.isRunnable)
    IN  [cli |-> [NoMain EXCEPT !.called = TRUE, !.args = args,
                                !.status = IF r.exited \/ r.threw THEN 1 ELSE 0,
                                !.error = IF r.exited THEN "extract"
                                          ELSE IF r.threw THEN "exception" ELSE "none",
                                !.command = "decode", !.inputFile = inputFile,
                                !.outputFile = IF r.exited \/ r.threw THEN <<>>
                                               ELSE outputFile,
                                !.before = files[inputFile], !.dec = r],
         files |-> IF r.exited \/ r.threw THEN files
                   ELSE writePath(files, outputFile, r.finalBuffer)]

\* case 'clean', r being what the call of clean did
mainClean(args, files, r) ==
    [cli |-> [NoMain EXCEPT !.called = TRUE, !.args = args, !.command = "clean",
                            !.inputFile = args[2], !.outputFile = r.outputFile,
                            !.before = files[args[2]],
                            !.removed = r.removed, !.cleaned = r.cleaned],
     files |-> r.files]

\* a main() that ends with status 0 whatever happened
mainAlwaysZero(args, files, kind, failAt) ==
    [cli |-> [NoMain EXCEPT !.called = TRUE, !.args = args], files |-> files]

\* main(), process.argv.slice(2) being args.  Every command that takes a file
\* checks first that the argument is there ("usage") and that the file exists
\* ("notfound"); these and an unknown command end in process.exit(1).
main(args, files, kind, failAt) ==
    LET ran == [NoMain EXCEPT !.called = TRUE, !.args = args]
        exitWith(error) == [cli |-> [ran EXCEPT !.status = 1, !.error = error],
                            files |-> files]
    IN  IF Len(args) = 0 \/ args[1] \in {ARG.help, ARG.helpLong, ARG.helpShort}
        THEN [cli |-> [ran EXCEPT !.help = TRUE], files |-> files]
        ELSE IF args[1] \in CliCommands /\ Len(args) < 2 THEN exitWith("usage")
        ELSE IF args[1] \in CliCommands /\ args[2] \notin DOMAIN files
        THEN exitWith("notfound")
        ELSE IF args[1] = ARG.encode
        THEN mainEncode(args, files,
                        IF outputOption(args) # <<>> THEN outputOption(args)
                        ELSE args[2] \o EXT.encoded,
                        encode(kind, files[args[2]], pathBasename(args[2]), "out",
                               argsInclude(args, ARG.compress),
                               argsInclude(args, ARG.runable), failAt))
        ELSE IF args[1] = ARG.decode
        THEN mainDecode(args, files, decode(kind, files[args[2]]))
        ELSE IF args[1] = ARG.analyze
        THEN [cli |-> [ran EXCEPT !.command = "analyze", !.inputFile = args[2],
                                  !.before = files[args[2]],
                                  !.analysis = analyze(files[args[2]])],
              files |-> files]
        ELSE IF args[1] = ARG.clean
        THEN mainClean(args, files, clean(files, args[2], outputOption(args)))
        ELSE IF args[1] = ARG.list
        THEN [cli |-> [ran EXCEPT !.command = "list"], files |-> files]
        ELSE exitWith("unknown")

(***************************************************************************)
(* The codec alone: encodeToInvisible and decodeFromInvisible as called by *)
(* the unit tests.                                                         *)
(***************************************************************************)
InitCodec ==
    /\ FilesIdle
    /\ CallsIdle
    /\ CliIdle
    /\ encoded = <<>>
    /\ decoded = NoDecoded
    /\ \/ step = "buffer" /\ buf \in Buffers /\ stream = <<>>
       \/ step = "stream" /\ stream \in Streams /\ buf = <<>>

\* const encoded = encodeToInvisible(buffer)
EncodeBuffer ==
    /\ step = "buffer"
    /\ encoded' = encodeToInvisible(buf)
    /\ step' = "encoded"
    /\ UNCHANGED <<buf, stream, decoded>>
    /\ UNCHANGED fileVars
    /\ UNCHANGED callVars
    /\ UNCHANGED <<disk, cli>>

\* decodeFromInvisible(encoded), on what encodeToInvisible returned
DecodeEncoded ==
    /\ step = "encoded"
    /\ decoded' = decodeFromInvisible(encoded)
    /\ step' = "roundtrip"
    /\ UNCHANGED <<buf, stream, encoded>>
    /\ UNCHANGED fileVars
    /\ UNCHANGED callVars
    /\ UNCHANGED <<disk, cli>>

\* decodeFromInvisible(s), on a string of the caller's making
DecodeStream ==
    /\ step = "stream"
    /\ decoded' = decodeFromInvisible(stream)
    /\ step' = "decoded"
    /\ UNCHANGED <<buf, stream, encoded>>
    /\ UNCHANGED fileVars
    /\ UNCHANGED callVars
    /\ UNCHANGED <<disk, cli>>

NextCodec == EncodeBuffer \/ DecodeEncoded \/ DecodeStream

SpecCodec == InitCodec /\ [][NextCodec]_vars

(***************************************************************************)
(* The commands on files: encode(in, out, options), decode(out, dec), and  *)
(* a user who puts a file of their own making at out.  A behaviour is one  *)
(* run in a fresh directory: out is written once, by encode or by the      *)
(* user, and then decoded once.                                            *)
(***************************************************************************)
Init ==
    /\ CodecIdle
    /\ codec \in CodecKinds
    /\ \E input \in Inputs : fs = [f \in FileNames |->
                                     IF f = "in" THEN input ELSE NoFile]
    /\ encRes = NoEncode
    /\ decRes = NoDecode
    /\ outOrigin = "none"
    /\ encRes2 = NoEncode
    /\ execRes = NoExec
    /\ CallsIdle
    /\ CliIdle

\* await encode('in', 'out', {compress})
Encode(compress, failAt) ==
    LET r == encode(codec, fs["in"], basename("in"), "out", compress, FALSE, failAt)
    IN  /\ ~encRes.called
        /\ fs["out"] = NoFile
        /\ encRes' = r
        /\ fs' = IF r.threw THEN fs ELSE writeFileSync(fs, "out", r.written)
        /\ outOrigin' = IF r.threw THEN outOrigin ELSE "encode"
        /\ decRes' = NoDecode
        /\ UNCHANGED <<codec, encRes2, execRes>>
        /\ UNCHANGED codecVars
        /\ UNCHANGED callVars
        /\ UNCHANGED <<disk, cli>>

\* await encode('in', null, {compress})
EncodeNoOutput(compress) ==
    LET r == encode(codec, fs["in"], basename("in"), nullPath, compress, FALSE, 0)
    IN  /\ ~encRes.called
        /\ fs["out"] = NoFile
        /\ encRes' = r
        /\ fs' = IF r.threw THEN fs ELSE writeFileSync(fs, r.outputFile, r.written)
        /\ UNCHANGED <<codec, decRes, outOrigin, encRes2, execRes>>
        /\ UNCHANGED codecVars
        /\ UNCHANGED callVars
        /\ UNCHANGED <<disk, cli>>

\* the same call once more: await encode('in', 'out', {compress}), out existing
EncodeAgain(failAt) ==
    LET r == encode(codec, fs["in"], basename("in"), "out", encRes.compress, FALSE, failAt)
    IN  /\ encRes.called
        /\ ~encRes.threw
        /\ ~encRes2.called
        /\ ~decRes.called
        /\ encRes2' = r
        /\ fs' = IF r.threw THEN fs ELSE writeFileSync(fs, "out", r.written)
        /\ UNCHANGED <<codec, encRes, decRes, outOrigin, execRes>>
        /\ UNCHANGED codecVars
        /\ UNCHANGED callVars
        /\ UNCHANGED <<disk, cli>>

\* what a user may put at out: a marker and the symbols of a payload, written as
\* text, or a compressed file that lost its last byte
CraftPayloads(kind) == {<<0>>, <<BROTLI_HEADER, 1>>, compressBuffer(kind, <<FOREIGN>>)}

CraftFiles(kind) ==
    {utf8Encode(<<m>> \o encodeToInvisible(p)) :
        m \in {COMPRESS_BEFORE, COMPRESS_AFTER}, p \in CraftPayloads(kind)}
    \cup
    {LET whole == compressBuffer(kind,
                      utf8Encode(<<COMPRESS_AFTER>> \o encodeToInvisible(<<FOREIGN>>)))
     IN  SubSeq(whole, 1, Len(whole) - 1)}

\* fs.writeFileSync('out', fakeCompressed, 'utf8')
Craft(content) ==
    /\ ~encRes.called
    /\ fs["out"] = NoFile
    /\ fs' = [fs EXCEPT !["out"] = content]
    /\ outOrigin' = "crafted"
    /\ decRes' = NoDecode
    /\ UNCHANGED <<codec, encRes, encRes2, execRes>>
    /\ UNCHANGED codecVars
    /\ UNCHANGED callVars
    /\ UNCHANGED <<disk, cli>>

\* await decode('out', 'dec')
Decode ==
    /\ fs["out"] # NoFile
    /\ ~decRes.called
    /\ LET r == decode(codec, fs["out"])
       IN  /\ decRes' = r
           /\ fs' = IF r.exited \/ r.threw THEN fs ELSE writeFileSync(fs, "dec", r.finalBuffer)
    /\ UNCHANGED <<codec, encRes, outOrigin, encRes2, execRes>>
    /\ UNCHANGED codecVars
    /\ UNCHANGED callVars
    /\ UNCHANGED <<disk, cli>>

Next ==
    \/ \E compress \in BOOLEAN, failAt \in 0..3 : Encode(compress, failAt)
    \/ \E compress \in BOOLEAN : EncodeNoOutput(compress)
    \/ \E failAt \in 0..3 : EncodeAgain(failAt)
    \/ \E content \in CraftFiles(codec) : Craft(content)
    \/ Decode

Spec == Init /\ [][Next]_vars

(***************************************************************************)
(* Runnable mode: encode(in, out, {compress, runable: true}), then         *)
(* decode(out, dec) and the execution of out (node out).                   *)
(***************************************************************************)
RunInputs == SeqsUpTo(BaseBytes, MaxLen) \cup {<<FOREIGN>>, RepeatedContent}

InitRunnable ==
    /\ CodecIdle
    /\ codec \in CodecKinds
    /\ \E input \in RunInputs : fs = [f \in FileNames |->
                                        IF f = "in" THEN input ELSE NoFile]
    /\ encRes = NoEncode
    /\ decRes = NoDecode
    /\ outOrigin = "none"
    /\ encRes2 = NoEncode
    /\ execRes = NoExec
    /\ CallsIdle
    /\ CliIdle

\* await encode('in', 'out', {compress, runable: true})
EncodeRunable(compress, failAt) ==
    LET r == encode(codec, fs["in"], basename("in"), "out", compress, TRUE, failAt)
    IN  /\ ~encRes.called
        /\ fs["out"] = NoFile
        /\ encRes' = r
        /\ fs' = IF r.threw THEN fs ELSE writeFileSync(fs, "out", r.written)
        /\ outOrigin' = IF r.threw THEN outOrigin ELSE "encode"
        /\ UNCHANGED <<codec, decRes, encRes2, execRes>>
        /\ UNCHANGED codecVars
        /\ UNCHANGED callVars
        /\ UNCHANGED <<disk, cli>>

\* the template literal n of the generated program, as node reads it from the file
embeddedLiteral(fileText) ==
    LET start == Len(TEMPLATE_HEAD) + 1
    IN  SubSeq(fileText, start, start + notTickRun(fileText, start) - 1)

\* node out: x() of the generated program, up to fs.writeFileSync(f,d)
Execute ==
    LET fileText == utf8Decode(fs["out"])
        r == template_d(codec, embeddedLiteral(fileText))
    IN  /\ fs["out"] # NoFile
        /\ occursAt(fileText, TEMPLATE_HEAD, 1)
        /\ ~execRes.called
        /\ execRes' = [called |-> TRUE, failed |-> ~r.ok, d |-> r.out]
        /\ UNCHANGED <<codec, fs, encRes, decRes, outOrigin, encRes2>>
        /\ UNCHANGED codecVars
        /\ UNCHANGED callVars
        /\ UNCHANGED <<disk, cli>>

NextRunnable ==
    \/ \E compress \in BOOLEAN, failAt \in 0..3 : EncodeRunable(compress, failAt)
    \/ Decode
    \/ Execute

SpecRunnable == InitRunnable /\ [][NextRunnable]_vars

(***************************************************************************)
(* Concurrent calls: encode and decode are async functions; a call runs    *)
(* without interruption from one await to the next, and other calls run    *)
(* while it waits for the compressor.  The calls use distinct files.       *)
(***************************************************************************)
CallIds == {1, 2}

inputFileOf(c) == IF c = 1 THEN "a" ELSE "b"

outputFileOf(c) == IF c = 1 THEN "a.out" ELSE "b.out"

ConcFiles == {"a", "b", "a.out", "b.out"}

\* what the input files hold: contents for encode, files encode wrote for decode
ConcContents == {<<>>, <<0, 0, 0>>, <<65, 255>>}

Plans(kind) ==
    {[op |-> "encode", compress |-> compress, given |-> content] :
        compress \in BOOLEAN, content \in ConcContents}
    \cup
    {[op |-> "decode", compress |-> FALSE,
      given |-> encode(kind, content, basename("in"), "out", compress, FALSE, 0).written] :
        compress \in BOOLEAN, content \in ConcContents}

\* the local variables of a call before it sets them
NoLocals ==
    [originalBuffer |-> <<>>, encodedCompressedBefore |-> <<>>, finalSizeMethod1 |-> 0,
     encodedOriginal |-> <<>>, encodedOriginalBuffer |-> <<>>, finalContent |-> <<>>,
     encodedContent |-> <<>>, compressedBuffer |-> <<>>, decodedBuffer |-> <<>>]

InitConc ==
    /\ CodecIdle
    /\ CliIdle
    /\ codec \in CodecKinds
    /\ encRes = NoEncode
    /\ decRes = NoDecode
    /\ outOrigin = "none"
    /\ encRes2 = NoEncode
    /\ execRes = NoExec
    /\ \E plan \in [CallIds -> Plans(codec)] :
           /\ calls = [c \in CallIds |->
                         [op |-> plan[c].op, compress |-> plan[c].compress,
                          inputFile |-> inputFileOf(c), outputFile |-> outputFileOf(c),
                          given |-> plan[c].given, pc |-> "start", k |-> NoLocals]]
           /\ fs = [f \in ConcFiles |->
                      IF \E c \in CallIds : f = inputFileOf(c)
                      THEN plan[CHOOSE c \in CallIds : f = inputFileOf(c)].given
                      ELSE NoFile]

\* variables declared at module scope: every call sees those of the last call
localsOfLastCall(cs, c) == cs[CHOOSE d \in DOMAIN cs : \A e \in DOMAIN cs : e <= d].k

\* const and let inside the function: the variables of call c are its own
localsOf(cs, c) == cs[c].k

\* the call moves to pc with its local variables set as in loc
resume(c, pc, loc) == calls' = [calls EXCEPT ![c].pc = pc, ![c].k = loc]

unchangedByCalls ==
    /\ UNCHANGED <<codec, encRes, decRes, outOrigin, encRes2, execRes>>
    /\ UNCHANGED codecVars
    /\ UNCHANGED <<disk, cli>>

\* encode: from the call to the first await compressBuffer(originalBuffer)
EncStart(c) ==
    /\ calls[c].op = "encode"
    /\ calls[c].pc = "start"
    /\ resume(c, "await1", [localsOf(calls, c) EXCEPT !.originalBuffer = fs[calls[c].inputFile]])
    /\ UNCHANGED fs
    /\ unchangedByCalls

\* encode: Method 1 measured, up to the second await compressBuffer(encodedOriginalBuffer)
EncAfter1(c) ==
    LET loc == localsOf(calls, c)
        compressedBeforeBuffer == compressBuffer(codec, loc.originalBuffer)
        encodedCompressedBefore == encodeToInvisible(compressedBeforeBuffer)
        encodedOriginal == encodeToInvisible(loc.originalBuffer)
    IN  /\ calls[c].op = "encode"
        /\ calls[c].pc = "await1"
        /\ resume(c, "await2",
                  [loc EXCEPT !.encodedCompressedBefore = encodedCompressedBefore,
                              !.finalSizeMethod1 = Len(utf8Encode(encodedCompressedBefore)),
                              !.encodedOriginal = encodedOriginal,
                              !.encodedOriginalBuffer = utf8Encode(encodedOriginal)])
        /\ UNCHANGED fs
        /\ unchangedByCalls

\* encode: Method 2 measured, SAVE FILE; the file is written here unless
\* COMPRESS_AFTER was chosen, which awaits compressBuffer once more
EncAfter2(c) ==
    LET loc == localsOf(calls, c)
        compressedAfterBuffer == compressBuffer(codec, loc.encodedOriginalBuffer)
        finalSizeMethod2 == Len(compressedAfterBuffer)
        encodedWithoutCompression == encodeToInvisible(loc.originalBuffer)
        methodUsed == selectMethod(calls[c].compress, FALSE, loc.finalSizeMethod1, finalSizeMethod2)
        finalContent == finalContentOf(methodUsed, loc.encodedCompressedBefore,
                                       loc.encodedOriginal, encodedWithoutCompression)
    IN  /\ calls[c].op = "encode"
        /\ calls[c].pc = "await2"
        /\ IF calls[c].compress /\ methodUsed = "COMPRESS_AFTER"
           THEN /\ resume(c, "await3", [loc EXCEPT !.finalContent = finalContent])
                /\ UNCHANGED fs
           ELSE /\ resume(c, "done", [loc EXCEPT !.finalContent = finalContent])
                /\ fs' = writeFileSync(fs, calls[c].outputFile, utf8Encode(finalContent))
        /\ unchangedByCalls

\* encode: fs.writeFileSync(outputFile, compressedFinal)
EncAfter3(c) ==
    LET loc == localsOf(calls, c)
    IN  /\ calls[c].op = "encode"
        /\ calls[c].pc = "await3"
        /\ resume(c, "done", loc)
        /\ fs' = writeFileSync(fs, calls[c].outputFile,
                                compressBuffer(codec, utf8Encode(loc.finalContent)))
        /\ unchangedByCalls

\* decode, from decodeFromInvisible(encodedContent) on: the output is written
\* here unless COMPRESS_BEFORE was found, which awaits brotliDecompress
decodeRest(c, loc, encodedContent) ==
    LET dec == decodeFromInvisible(encodedContent)
    IN  IF dec.compressionMethod = "BEFORE"
        THEN /\ resume(c, "awaitInflate", [loc EXCEPT !.encodedContent = encodedContent,
                                                      !.decodedBuffer = dec.buffer])
             /\ UNCHANGED fs
        ELSE /\ resume(c, "done", [loc EXCEPT !.encodedContent = encodedContent,
                                              !.decodedBuffer = dec.buffer])
             /\ fs' = writeFileSync(fs, calls[c].outputFile, dec.buffer)

\* decode: from the call to its first await, or to its end if it has none
DecStart(c) ==
    LET loc == localsOf(calls, c)
        fileText == utf8Decode(fs[calls[c].inputFile])
        isRunnable == includes(fileText, SIGNATURE)
        exited == isRunnable /\ matchStarts(fileText) = {}
        encodedContent == IF isRunnable /\ ~exited THEN matchGroup(fileText) ELSE fileText
    IN  /\ calls[c].op = "decode"
        /\ calls[c].pc = "start"
        /\ IF exited
           THEN resume(c, "exited", loc) /\ UNCHANGED fs
           ELSE IF needsAfterProbe(encodedContent)
           THEN /\ resume(c, "awaitProbe",
                          [loc EXCEPT !.encodedContent = encodedContent,
                                      !.compressedBuffer = fs[calls[c].inputFile]])
                /\ UNCHANGED fs
           ELSE decodeRest(c, loc, encodedContent)
        /\ unchangedByCalls

\* decode: after await brotliDecompress(compressedBuffer), a rejection being caught
DecAfterProbe(c) ==
    LET loc == localsOf(calls, c)
        probed == brotliDecompress(codec, loc.compressedBuffer)
    IN  /\ calls[c].op = "decode"
        /\ calls[c].pc = "awaitProbe"
        /\ decodeRest(c, loc, IF probed.ok THEN utf8Decode(probed.out) ELSE loc.encodedContent)
        /\ unchangedByCalls

\* decode: after finalBuffer = await brotliDecompress(decodedBuffer)
DecAfterInflate(c) ==
    LET loc == localsOf(calls, c)
        inflated == brotliDecompress(codec, loc.decodedBuffer)
    IN  /\ calls[c].op = "decode"
        /\ calls[c].pc = "awaitInflate"
        /\ IF inflated.ok
           THEN /\ resume(c, "done", loc)
                /\ fs' = writeFileSync(fs, calls[c].outputFile, inflated.out)
           ELSE /\ resume(c, "threw", loc)
                /\ UNCHANGED fs
        /\ unchangedByCalls

NextConc ==
    \E c \in CallIds :
        \/ EncStart(c)
        \/ EncAfter1(c)
        \/ EncAfter2(c)
        \/ EncAfter3(c)
        \/ DecStart(c)
        \/ DecAfterProbe(c)
        \/ DecAfterInflate(c)

SpecConc == InitConc /\ [][NextConc]_vars

(***************************************************************************)
(* The command line (SpecCli): one file in the working directory, one run   *)
(* of main().                                                               *)
(***************************************************************************)
MaxPathLen == 2     \* longest stem of a file name, before the extension
MaxTextLen == 3     \* longest short text of a file given to analyze and clean
MaxOver == 2        \* most invisible characters beyond the listing limit

\* file names: a stem of letters and dots, then no extension, '.encoded' or '.t';
\* "." and ".." name directories and are left out
CliPaths ==
    {stem \o ext :
        stem \in SeqsUpTo({CHAR.a, CHAR.dot}, MaxPathLen) \ {<<>>, <<CHAR.dot>>, <<CHAR.dot, CHAR.dot>>},
        ext \in {<<>>, EXT.encoded, <<CHAR.dot, CHAR.t>>}}


\* short texts, and texts with n invisible characters around the listing
\* limit, a visible character standing second
CliTexts ==
    SeqsUpTo({CHAR.A, ZERO, CHAR.ideographicSpace, CHAR.softHyphen}, MaxTextLen)
    \cup {[i \in 1..(n + 1) |-> IF i = 2 THEN CHAR.A ELSE ONE] :
              n \in (POSITIONS_SHOWN - 1)..(POSITIONS_SHOWN + MaxOver)}

\* files that hold the signature of the self-extracting wrapper: the test's
\* 'const n=invalid' (no literal), a literal that is empty, one that is not
\* closed, and the least that decode takes for a runnable file
WRAPPER ==
    [invalid |-> SIGNATURE \o <<CHAR.lf>> \o <<99, 111, 110, 115, 116, 32, 110, 61, 105, 110, 118, 97, 108, 105, 100>>,
     empty |-> SIGNATURE \o <<CHAR.lf>> \o CONST_N \o <<BACKTICK>>,
     unclosed |-> SIGNATURE \o <<CHAR.lf>> \o CONST_N \o encodeToInvisible(<<CHAR.A>>),
     minimal |-> SIGNATURE \o <<CHAR.lf>> \o CONST_N \o encodeToInvisible(<<CHAR.A>>)
                     \o <<BACKTICK>>]

\* files as encode writes them, a marked file that holds no compressed data,
\* and wrappers of the self-extracting kind, valid and invalid
CliEncodedFiles ==
    {utf8Encode(encodeToInvisible(<<CHAR.A>>)),
     utf8Encode(<<COMPRESS_BEFORE>> \o encodeToInvisible(compressBuffer("rle", <<0, 0, 0>>))),
     compressBuffer("rle", utf8Encode(<<COMPRESS_AFTER>> \o encodeToInvisible(<<CHAR.A>>))),
     utf8Encode(<<COMPRESS_BEFORE>> \o encodeToInvisible(<<0>>)),
     utf8Encode(WRAPPER.invalid),
     utf8Encode(SIGNATURE),
     utf8Encode(WRAPPER.empty),
     utf8Encode(WRAPPER.unclosed),
     utf8Encode(WRAPPER.minimal)}

\* command lines for a working directory that holds the file p; 'o' is a path
\* given with -o, 'z' a file that does not exist
ArgLists(p) ==
    LET out == <<111>>
        missing == <<122>>
    IN  {<<>>, <<ARG.help>>, <<ARG.helpLong>>, <<ARG.helpShort>>, <<ARG.help, p>>,
         <<ARG.list>>, <<ARG.bogus>>, <<ARG.bogus, p>>, <<p>>,
         <<ARG.encode, p, ARG.compress>>, <<ARG.clean, p, ARG.outputShort, p>>}
        \cup {<<c>> : c \in CliCommands}
        \cup {<<c, p>> : c \in CliCommands}
        \cup {<<c, missing>> : c \in CliCommands}
        \cup {<<c, p, ARG.outputShort, out>> : c \in CliCommands}
        \cup {<<c, p, ARG.output, out>> : c \in CliCommands}
        \cup {<<c, p, ARG.outputShort>> : c \in CliCommands}

InitCli ==
    /\ CodecIdle
    /\ FilesIdle
    /\ CallsIdle
    /\ cli = NoMain
    /\ \/ \E p \in CliPaths, c \in CliEncodedFiles \cup {utf8Encode(<<CHAR.A, ZERO>>)} :
              disk = [q \in {p} |-> c]
       \/ \E t \in CliTexts :
              disk = [q \in {<<CHAR.a, CHAR.dot, CHAR.t>>} |-> utf8Encode(t)]

\* node invjsible.js args...
Main ==
    /\ ~cli.called
    /\ \E p \in DOMAIN disk :
           \E args \in ArgLists(p), failAt \in {0, 1} :
               LET becomes(r) == cli' = r.cli /\ disk' = r.files
               IN  becomes(main(args, disk, codec, failAt))
    /\ UNCHANGED codecVars
    /\ UNCHANGED fileVars
    /\ UNCHANGED callVars

NextCli == Main

SpecCli == InitCli /\ [][NextCli]_vars

(***************************************************************************)
(* Properties of the codec (SpecCodec).                                    *)
(***************************************************************************)
\* the stream without its marker, and the bit a data symbol stands for
dataOf(s) ==
    IF Len(s) >= 1 /\ s[1] \in {COMPRESS_BEFORE, COMPRESS_AFTER} THEN Tail(s) ELSE s

bitOf(c) == IF c = ONE THEN 1 ELSE 0

\* big-endian value of the symbols 8(i-1)+1 .. 8i of data
bigEndian(data, i) ==
    LET b(k) == bitOf(data[8 * (i - 1) + k])
    IN  128 * b(1) + 64 * b(2) + 32 * b(3) + 16 * b(4) + 8 * b(5) + 4 * b(6)
        + 2 * b(7) + b(8)

\* C1: decodeFromInvisible(encodeToInvisible(b)) returns a buffer equal to b and
\* reports no compression marker, for every buffer b, the empty one included.
C1_CodecRoundTrip ==
    step = "roundtrip" =>
        /\ decoded.buffer = buf
        /\ decoded.compressionMethod = "null"

C1_Witness ==
    /\ step = "roundtrip"
    /\ buf = <<0, 127, 255>>
    /\ decoded.buffer = <<0, 127, 255>>

\* C7: decodeFromInvisible reports BEFORE exactly when the string starts with
\* COMPRESS_BEFORE and AFTER exactly when it starts with COMPRESS_AFTER, and then
\* decodes the string without its first character; for every other string, the
\* empty one included, it reports no compression and decodes the whole string.
C7_MarkerDetection ==
    step = "decoded" =>
        /\ decoded.compressionMethod = "BEFORE"
               <=> (Len(stream) >= 1 /\ stream[1] = COMPRESS_BEFORE)
        /\ decoded.compressionMethod = "AFTER"
               <=> (Len(stream) >= 1 /\ stream[1] = COMPRESS_AFTER)
        /\ decoded.compressionMethod \in {"BEFORE", "AFTER", "null"}
        /\ decoded.compressionMethod # "null" => decoded.buffer = decodeLoop(Tail(stream))
        /\ decoded.compressionMethod = "null" => decoded.buffer = decodeLoop(stream)

C7_Witness ==
    /\ step = "decoded"
    /\ Len(stream) = 17
    /\ stream[1] = COMPRESS_AFTER
    /\ decoded.compressionMethod = "AFTER"
    /\ decoded.buffer = <<86, 255>>

\* C8: for a string of k data symbols (ZERO and ONE only, possibly after one
\* marker) decodeFromInvisible returns exactly floor(k/8) bytes, byte i being the
\* big-endian value of symbols 8i..8i+7; the last k mod 8 symbols add nothing.
C8_IncompleteTailDropped ==
    (step = "decoded" /\ \A k \in 1..Len(dataOf(stream)) : dataOf(stream)[k] \in {ZERO, ONE}) =>
        /\ Len(decoded.buffer) = Len(dataOf(stream)) \div 8
        /\ \A i \in 1..Len(decoded.buffer) :
               decoded.buffer[i] = bigEndian(dataOf(stream), i)

C8_Witness ==
    /\ step = "decoded"
    /\ Len(stream) = 16
    /\ stream[1] = COMPRESS_BEFORE
    /\ \A k \in 2..16 : stream[k] \in {ZERO, ONE}
    /\ decoded.buffer = <<86>>

\* C9: encodeToInvisible emits, for each byte in order, exactly 8 symbols, most
\* significant bit first, ZERO for a 0 bit and ONE for a 1 bit; the empty buffer
\* gives the empty string.
C9_BitOrder ==
    step \in {"encoded", "roundtrip"} =>
        /\ Len(encoded) = 8 * Len(buf)
        /\ \A i \in 1..Len(buf) : \A k \in 1..8 :
               encoded[8 * (i - 1) + k] =
                   IF (buf[i] \div (2 ^ (8 - k))) % 2 = 0 THEN ZERO ELSE ONE

C9_Witness ==
    /\ step = "encoded"
    /\ buf = <<255, 1>>
    /\ encoded = <<ONE, ONE, ONE, ONE, ONE, ONE, ONE, ONE,
                   ZERO, ZERO, ZERO, ZERO, ZERO, ZERO, ZERO, ONE>>

\* C15: decodeFromInvisible returns a buffer of bytes and a strategy for every
\* string: the empty string gives the empty buffer and no strategy, a string of
\* one character gives the empty buffer, and characters outside the alphabet
\* are accepted; no call fails.
C15_DecodeTotal ==
    step = "decoded" =>
        /\ decoded.compressionMethod \in {"BEFORE", "AFTER", "null"}
        /\ \A i \in 1..Len(decoded.buffer) : decoded.buffer[i] \in Bytes
        /\ Len(decoded.buffer) <= Len(stream) \div 8
        /\ stream = <<>> => (decoded.buffer = <<>> /\ decoded.compressionMethod = "null")
        /\ Len(stream) = 1 => decoded.buffer = <<>>

C15_Witness ==
    /\ step = "decoded"
    /\ stream = <<FOREIGN, COMPRESS_BEFORE, ONE, ONE, ONE, ONE, ONE, ONE, ONE>>
    /\ decoded.buffer = <<>>
    /\ decoded.compressionMethod = "null"

\* the complete groups of 8 characters of data that hold data symbols only
symbolGroups(data) ==
    {g \in 1..(Len(data) \div 8) : \A k \in 1..8 : data[8 * (g - 1) + k] \in {ZERO, ONE}}

\* the i-th of them, in the order of the string
nthSymbolGroup(data, i) ==
    CHOOSE g \in symbolGroups(data) : Cardinality({h \in symbolGroups(data) : h <= g}) = i

C21_IsCompressedFlag ==
    (step = "decoded" /\ Len(stream) >= 1 /\ stream[1] \in {COMPRESS_BEFORE, ZERO, ONE}) =>
        /\ "isCompressed" \in DOMAIN decoded
        /\ decoded["isCompressed"] = startsWith(stream, COMPRESS_BEFORE)

(***************************************************************************)
(* Properties of encode and decode on files (Spec).                        *)
(***************************************************************************)
\* encode() returned and decode() was then run on the file it wrote
EncodedThenDecoded == encRes.called /\ ~encRes.threw /\ decRes.called

\* the direct, unmarked encoding of the input file, as written to disk
DirectFile == utf8Encode(encodeToInvisible(fs["in"]))

\* C2: encode(in, out, {compress: true}) followed by decode(out, dec) writes to
\* dec exactly the bytes of in, whichever method the selector picked.
C2_RoundTripCompressed ==
    (EncodedThenDecoded /\ encRes.compress) =>
        /\ ~decRes.threw
        /\ ~decRes.exited
        /\ fs["dec"] = fs["in"]

C2_Witness ==
    /\ EncodedThenDecoded
    /\ encRes.compress
    /\ encRes.methodUsed = "COMPRESS_AFTER"
    /\ fs["in"] = <<0, 65, 255>>
    /\ fs["dec"] = <<0, 65, 255>>

\* C3: encode(in, out, {compress: false}) followed by decode(out, dec) writes to
\* dec exactly the bytes of in, for the empty file and for the file of all 256
\* byte values too.
C3_RoundTripPlain ==
    (EncodedThenDecoded /\ ~encRes.compress) =>
        /\ ~decRes.threw
        /\ ~decRes.exited
        /\ fs["dec"] = fs["in"]

C3_Witness ==
    /\ EncodedThenDecoded
    /\ ~encRes.compress
    /\ fs["in"] = AllByteValues
    /\ fs["dec"] = AllByteValues

\* the size encode measured for the method it used
measuredOf(r) ==
    IF r.methodUsed = "COMPRESS_BEFORE" THEN r.finalSizeMethod1
    ELSE IF r.methodUsed = "COMPRESS_AFTER" THEN r.finalSizeMethod2
    ELSE r.finalSizeNoCompression

\* C4: with compression enabled encode writes the candidate whose measured size
\* is the smallest of direct encoding and the compressed candidates; whenever
\* direct encoding is strictly smaller than every compressed candidate, the
\* output is the direct encoding with no marker.
C4_SelectorPicksSmallest ==
    (encRes.called /\ ~encRes.threw /\ encRes.compress) =>
        /\ measuredOf(encRes) <= encRes.finalSizeNoCompression
        /\ measuredOf(encRes) <= encRes.finalSizeMethod1
        /\ measuredOf(encRes) <= encRes.finalSizeMethod2
        /\ (/\ encRes.finalSizeNoCompression < encRes.finalSizeMethod1
            /\ encRes.finalSizeNoCompression < encRes.finalSizeMethod2)
               => (encRes.methodUsed = "NONE" /\ fs["out"] = DirectFile)

\* C5: if the compressor fails during encode, encode does not fail: it falls
\* back to NONE and writes the direct, unmarked encoding of the input.
C5_CompressFailureFallsBack ==
    (encRes.called /\ encRes.compressFailed) =>
        /\ ~encRes.threw
        /\ encRes.methodUsed = "NONE"
        /\ fs["out"] = DirectFile

\* the text decode() read starts with a recognized marker, and the bytes its
\* symbols stand for are rejected by the decompressor
MarkedCorruptInput ==
    LET text == utf8Decode(decRes.input)
    IN  /\ decRes.called
        /\ startsWith(text, COMPRESS_BEFORE) \/ startsWith(text, COMPRESS_AFTER)
        /\ ~brotliDecompress(codec, decodeLoop(slice1(text))).ok

\* C6: for every recognized marker, decoding a stream that starts with that marker
\* and whose payload is not valid compressed data fails, and the failure reaches
\* the caller of decode instead of decoded output being produced.
C6_CorruptPayloadFatal ==
    MarkedCorruptInput => (decRes.threw /\ fs["dec"] = NoFile)

\* C10: with compress false (normal mode) the file written is exactly
\* encodeToInvisible(input) with no marker, whatever the compressor returns.
C10_CompressionDisabledIsNone ==
    (encRes.called /\ ~encRes.threw /\ ~encRes.compress) =>
        /\ encRes.methodUsed = "NONE"
        /\ fs["out"] = utf8Encode([k \in 1..(8 * Len(fs["in"])) |->
                                       symbolOf(fs["in"][((k - 1) \div 8) + 1],
                                                ((k - 1) % 8) + 1)])

C10_Witness ==
    /\ encRes.called
    /\ ~encRes.threw
    /\ ~encRes.compress
    /\ codec = "rle"
    /\ fs["in"] = <<65, 65, 65, 65>>
    /\ encRes.finalSizeMethod1 < encRes.finalSizeNoCompression
    /\ Len(fs["out"]) = encRes.finalSizeNoCompression

\* encode() returned with compression enabled, and Method 1 measured exactly the
\* size of the direct encoding
TieWithDirect ==
    /\ encRes.called
    /\ ~encRes.threw
    /\ encRes.compress
    /\ encRes.finalSizeMethod1 = encRes.finalSizeNoCompression

\* the files of the two compressed candidates
Method1File == utf8Encode(<<COMPRESS_BEFORE>> \o encodeToInvisible(compressBuffer(codec, fs["in"])))

Method2File == compressBuffer(codec, utf8Encode(<<COMPRESS_AFTER>> \o encodeToInvisible(fs["in"])))

bitEncodedBuffer(r) ==
    IF r.methodUsed = "COMPRESS_BEFORE" THEN compressBuffer(codec, r.original) ELSE r.original

\* C13: the stream encode selects for output has length m + 8*N, where N is the
\* length of the buffer that was bit-encoded and m is 1 when a marker is present
\* (methods COMPRESS_BEFORE and COMPRESS_AFTER, the marker standing first) and 0
\* when none is (method NONE).
C13_StreamLength ==
    (encRes.called /\ ~encRes.threw) =>
        LET content == encRes.finalContent
            N == Len(bitEncodedBuffer(encRes))
        IN  /\ encRes.methodUsed = "NONE" => Len(content) = 8 * N
            /\ encRes.methodUsed = "COMPRESS_BEFORE"
                   => (Len(content) = 1 + 8 * N /\ content[1] = COMPRESS_BEFORE)
            /\ encRes.methodUsed = "COMPRESS_AFTER"
                   => (Len(content) = 1 + 8 * N /\ content[1] = COMPRESS_AFTER)
            /\ encRes.methodUsed \in {"NONE", "COMPRESS_BEFORE", "COMPRESS_AFTER"}

C13_Witness ==
    /\ encRes.called
    /\ ~encRes.threw
    /\ encRes.methodUsed = "COMPRESS_BEFORE"
    /\ codec = "rle"
    /\ fs["in"] = <<65, 65, 65, 65>>
    /\ Len(encRes.finalContent) = 25

\* C14: ZERO, ONE, COMPRESS_BEFORE and COMPRESS_AFTER are four distinct
\* characters; every character encode takes from encodeToInvisible is ZERO or ONE;
\* so a stream encode produced with method NONE has no marker at position 0, and
\* decode neither detects compression in its file nor decompresses anything.
C14_AlphabetsDisjoint ==
    /\ Cardinality({ZERO, ONE, COMPRESS_BEFORE, COMPRESS_AFTER}) = 4
    /\ (encRes.called /\ ~encRes.threw) =>
           LET content == encRes.finalContent
           IN  /\ \A k \in 1..Len(content) :
                      (k > 1 \/ encRes.methodUsed = "NONE") => content[k] \in {ZERO, ONE}
               /\ encRes.methodUsed = "NONE" =>
                      /\ ~startsWith(content, COMPRESS_BEFORE)
                      /\ ~startsWith(content, COMPRESS_AFTER)
    /\ (EncodedThenDecoded /\ encRes.methodUsed = "NONE") =>
           /\ decRes.compressionDetected = "NONE"
           /\ decRes.compressionMethod = "null"
           /\ decRes.inflations = 0

C14_Witness ==
    /\ EncodedThenDecoded
    /\ encRes.methodUsed = "NONE"
    /\ fs["in"] = <<255, 0>>
    /\ Len(encRes.finalContent) = 16
    /\ decRes.compressionMethod = "null"
    /\ decRes.inflations = 0

\* C20: encode called with no output file (null) writes the encoded result to
\* <inputFile>.encoded.
C20_DefaultOutputName ==
    (encRes.called /\ encRes.outputFile = nullPath /\ ~encRes.compressFailed) =>
        /\ ~encRes.threw
        /\ fs["in.encoded"] # NoFile
        /\ ~encRes.compress => fs["in.encoded"] = DirectFile

\* C27: decode uses decompression exactly as encode used compression for the
\* file it wrote in normal mode: for COMPRESS_BEFORE it bit-decodes and then
\* decompresses once; for COMPRESS_AFTER it decompresses the raw file, then
\* strips the marker and bit-decodes, and decompresses nothing afterwards; for
\* NONE no decompression succeeds, so none contributes to the output.
C27_DecodeInvertsStages ==
    (EncodedThenDecoded /\ ~encRes.runable) =>
        /\ encRes.methodUsed = "COMPRESS_BEFORE" =>
               /\ decRes.stages = <<"bit-decode", "decompress buffer">>
               /\ decRes.compressionMethod = "BEFORE"
               /\ decRes.finalBuffer
                      = brotliDecompress(codec,
                            decodeFromInvisible(utf8Decode(fs["out"])).buffer).out
        /\ encRes.methodUsed = "COMPRESS_AFTER" =>
               /\ decRes.stages = <<"decompress file", "bit-decode">>
               /\ decRes.compressionMethod = "AFTER"
               /\ decRes.finalBuffer
                      = decodeFromInvisible(
                            utf8Decode(brotliDecompress(codec, fs["out"]).out)).buffer
        /\ encRes.methodUsed = "NONE" =>
               /\ decRes.inflations = 0
               /\ decRes.compressionMethod = "null"
               /\ decRes.finalBuffer = decodeFromInvisible(utf8Decode(fs["out"])).buffer

C27_Witness ==
    /\ EncodedThenDecoded
    /\ ~encRes.runable
    /\ encRes.methodUsed = "COMPRESS_AFTER"
    /\ decRes.stages = <<"decompress file", "bit-decode">>
    /\ fs["dec"] = fs["in"]
    /\ Len(fs["in"]) >= 1

\* C28 (as claimed): with compression enabled in normal mode, the size encode
\* compared for the method it selects (finalSizeMethod1 or finalSizeMethod2) is
\* the byte size of the file it then writes.
C28_MeasuredIsWritten ==
    (encRes.called /\ ~encRes.threw /\ encRes.compress /\ ~encRes.runable) =>
        measuredOf(encRes) = Len(fs["out"])

(***************************************************************************)
(* Properties of runnable mode (SpecRunnable).                             *)
(***************************************************************************)
\* C17: encode(in, out, {runable: true}) followed by decode(out, dec), with
\* compress true or false and for every input, the empty file included: decode
\* detects the wrapper, extracts the embedded stream and writes to dec exactly
\* the bytes of in.
C17_RunnableRoundTrip ==
    (EncodedThenDecoded /\ encRes.runable) =>
        /\ decRes.isRunnable
        /\ ~decRes.exited
        /\ ~decRes.threw
        /\ fs["dec"] = fs["in"]

\* C18: for every stream encode embeds in a runnable file, the decoder of the
\* generated program (g and the marker test on n[0]) reconstructs the bytes that
\* decodeFromInvisible and the decompression after COMPRESS_BEFORE give, so that
\* running the file yields the original content.
C18_TemplateDecoderAgrees ==
    (encRes.called /\ ~encRes.threw /\ encRes.runable /\ execRes.called) =>
        LET dec == decodeFromInvisible(encRes.finalContent)
            expected == IF dec.compressionMethod = "BEFORE"
                        THEN brotliDecompress(codec, dec.buffer).out
                        ELSE dec.buffer
        IN  /\ ~execRes.failed
            /\ execRes.d = expected
            /\ execRes.d = fs["in"]

\* C29: with runable and compress the stream embedded in the template starts with
\* COMPRESS_BEFORE, whatever the two measured sizes are, and the file is written
\* as text, never passed through the compressor; with runable and no compress
\* the embedded stream has no marker.
C29_RunnableNeverAfter ==
    (encRes.called /\ ~encRes.threw /\ encRes.runable) =>
        LET fileText == utf8Decode(fs["out"])
            literal == embeddedLiteral(fileText)
        IN  /\ occursAt(fileText, TEMPLATE_HEAD, 1)
            /\ fs["out"] = utf8Encode(fileText)
            /\ fileText = TEMPLATE_HEAD \o literal \o TEMPLATE_MID \o basename("in")
                              \o TEMPLATE_TAIL
            /\ encRes.compress =>
                   /\ encRes.methodUsed = "COMPRESS_BEFORE"
                   /\ literal = <<COMPRESS_BEFORE>>
                                    \o encodeToInvisible(compressBuffer(codec, fs["in"]))
            /\ ~encRes.compress =>
                   /\ literal = encodeToInvisible(fs["in"])
                   /\ \A i \in 1..Len(literal) : literal[i] \in {ZERO, ONE}

C29_Witness ==
    /\ encRes.called
    /\ ~encRes.threw
    /\ encRes.runable
    /\ encRes.compress
    /\ encRes.finalSizeMethod2 < encRes.finalSizeMethod1
    /\ embeddedLiteral(utf8Decode(fs["out"]))[1] = COMPRESS_BEFORE

(***************************************************************************)
(* Properties of concurrent calls (SpecConc).                              *)
(***************************************************************************)
\* what call c writes when it runs alone on the file it was given
aloneOutput(c) ==
    IF calls[c].op = "encode"
    THEN encode(codec, calls[c].given, basename("in"), "out", calls[c].compress, FALSE, 0).written
    ELSE decode(codec, calls[c].given).finalBuffer

\* C19: whatever the interleaving of two concurrent calls (encode or decode) on
\* distinct files, a call that has finished has written to its output file what
\* it writes when run alone; until then its output file does not exist, and no
\* call changes an input file.
C19_ConcurrentCallsIndependent ==
    calls # <<>> =>
        \A c \in CallIds :
            /\ calls[c].pc = "done" => fs[calls[c].outputFile] = aloneOutput(c)
            /\ calls[c].pc # "done" => fs[calls[c].outputFile] = NoFile
            /\ fs[calls[c].inputFile] = calls[c].given

C19_Witness ==
    /\ calls # <<>>
    /\ codec = "rle"
    /\ calls[1].op = "encode" /\ calls[1].compress /\ calls[1].given = <<65, 255>>
    /\ calls[2].op = "decode" /\ calls[2].k.decodedBuffer = compressBuffer("rle", <<0, 0, 0>>)
    /\ calls[1].pc = "done" /\ calls[2].pc = "done"
    /\ fs["a.out"] = compressBuffer("rle", utf8Encode(<<COMPRESS_AFTER>> \o encodeToInvisible(<<65, 255>>)))
    /\ fs["b.out"] = <<0, 0, 0>>

(***************************************************************************)
(* Properties of the command line, of analyze and of clean (SpecCli).      *)
(***************************************************************************)
\* C22: with no output file given, decode writes to the input path with a
\* trailing '.encoded' replaced by '.decoded' if the path ends with '.encoded',
\* and to the input path with '.decoded' appended otherwise, for a
\* self-extracting file as for any other; that path is never the input path,
\* and the input file stays as it was.
C22_DecodeDefaultOutput ==
    (/\ cli.called
     /\ cli.command = "decode"
     /\ cli.status = 0
     /\ outputOption(cli.args) = <<>>) =>
        LET inputFile == cli.inputFile
            stemLength == Len(inputFile) - Len(EXT.encoded)
        IN  /\ cli.outputFile =
                   IF endsWith(inputFile, EXT.encoded)
                   THEN SubSeq(inputFile, 1, stemLength) \o EXT.decoded
                   ELSE inputFile \o EXT.decoded
            /\ cli.outputFile # inputFile
            /\ cli.outputFile \in DOMAIN disk
            /\ disk[cli.outputFile] = cli.dec.finalBuffer
            /\ disk[inputFile] = cli.before

C22_Witness ==
    /\ cli.called
    /\ cli.command = "decode"
    /\ cli.status = 0
    /\ cli.args = <<ARG.decode, <<CHAR.a, CHAR.dot, CHAR.t>>>>
    /\ cli.dec.isRunnable
    /\ cli.outputFile = <<CHAR.a, CHAR.dot, CHAR.t>> \o EXT.decoded
    /\ disk[cli.outputFile] = <<CHAR.A>>

\* C23: main ends with status 0 after printing the help when called with no
\* arguments, 'help', '--help' or '-h'; it prints an error and exits with status
\* 1, running no command and writing no file, when a command that needs a file
\* is given none or one that does not exist, or when the command is unknown; a
\* command that throws ends in status 1 with the error reported.
C23_ExitStatus ==
    cli.called =>
        LET args == cli.args
            wantsHelp ==
                Len(args) = 0 \/ args[1] \in {ARG.help, ARG.helpLong, ARG.helpShort}
            unservable ==
                /\ ~wantsHelp
                /\ \/ args[1] \in CliCommands /\ Len(args) < 2
                   \/ args[1] \in CliCommands /\ Len(args) >= 2
                          /\ args[2] \notin DOMAIN disk
                   \/ args[1] \notin CliCommands \cup {ARG.list}
        IN  /\ wantsHelp =>
                   /\ cli.status = 0
                   /\ cli.help
                   /\ cli.command = "none"
                   /\ cli.error = "none"
            /\ unservable =>
                   /\ cli.status = 1
                   /\ cli.error \in {"usage", "notfound", "unknown"}
                   /\ cli.command = "none"
                   /\ ~cli.help
                   /\ Cardinality(DOMAIN disk) = 1
            /\ (cli.enc.threw \/ cli.dec.threw) =>
                   cli.status = 1 /\ cli.error = "exception"

C23_Witness ==
    /\ cli.called
    /\ cli.args = <<ARG.decode, <<CHAR.a>>>>
    /\ cli.dec.threw
    /\ cli.status = 1
    /\ cli.error = "exception"
    /\ DOMAIN disk = {<<CHAR.a>>}

\* C24: when decode reads a file that holds the signature line of the
\* self-extracting wrapper but no literal const n=`...` with content (no
\* 'const n=`' with a character other than ` next and a ` behind it), it reports
\* 'Could not extract content' and exits with status 1, writing nothing.
C24_InvalidWrapperExits ==
    (cli.called /\ cli.command = "decode") =>
        LET text == utf8Decode(cli.before)
            hasLiteral ==
                \E i \in 1..Len(text), j \in 1..Len(text) :
                    /\ occursAt(text, CONST_N, i)
                    /\ i + Len(CONST_N) < j
                    /\ text[i + Len(CONST_N)] # BACKTICK
                    /\ text[j] = BACKTICK
        IN  (includes(text, SIGNATURE) /\ ~hasLiteral) =>
                /\ cli.error = "extract"
                /\ cli.status = 1
                /\ DOMAIN disk = {cli.inputFile}
                /\ disk[cli.inputFile] = cli.before

C24_Witness ==
    /\ cli.called
    /\ cli.command = "decode"
    /\ cli.before = utf8Encode(WRAPPER.invalid)
    /\ cli.error = "extract"
    /\ cli.status = 1

\* the text is what is left of content when its characters of S are deleted
LeftAfterDeleting(text, content, S) ==
    LET kept == {i \in 1..Len(content) : content[i] \notin S}
    IN  /\ Len(text) = Cardinality(kept)
        /\ \A k \in 1..Len(text) : text[k] = content[nth(kept, k)]

\* what clean reports and writes belongs to the text it returns
CleanReportsAndWrites ==
    /\ cli.removed = Len(utf8Decode(cli.before)) - Len(cli.cleaned)
    /\ disk[cli.outputFile] = utf8Encode(cli.cleaned)
    /\ ~analyze(disk[cli.outputFile]).contains

\* C25 (as claimed): the output of clean holds no character of
\* invisibleChars.dictionary, keeps all other characters in their original
\* order, and 'Characters removed' is input length minus output length.
C25_CleanRemovesDictionaryOnly ==
    (cli.called /\ cli.command = "clean") =>
        /\ LeftAfterDeleting(cli.cleaned, utf8Decode(cli.before), dictionaryCodes)
        /\ CleanReportsAndWrites

\* C25 (amended): the output of clean holds no character of
\* invisibleChars.dictionary (analyze finds none in it) and none of the further
\* characters of removeInvisibles' class, such as U+3000; it keeps every
\* character outside that class in the original order, and 'Characters removed'
\* is input length minus output length.
C25_CleanRemovesClass ==
    (cli.called /\ cli.command = "clean") =>
        /\ \A k \in 1..Len(cli.cleaned) : cli.cleaned[k] \notin dictionaryCodes
        /\ LeftAfterDeleting(cli.cleaned, utf8Decode(cli.before), removedClass)
        /\ CleanReportsAndWrites

C25_Witness ==
    /\ cli.called
    /\ cli.command = "clean"
    /\ utf8Decode(cli.before) = <<ZERO, CHAR.A, CHAR.softHyphen>>
    /\ cli.cleaned = <<CHAR.A>>
    /\ cli.removed = 2

\* C26: when the text has n invisible characters, analyze lists all n positions
\* and no truncation notice if 1 <= n <= 20, and exactly the first 20 positions
\* followed by '... and (n-20) more' if n > 20; the total reported is n.
C26_PositionListing ==
    (cli.called /\ cli.command = "analyze") =>
        LET text == utf8Decode(cli.before)
            at == {i - 1 : i \in {j \in 1..Len(text) : text[j] \in dictionaryCodes}}
            n == Cardinality(at)
            shown == cli.analysis.listing.listed
        IN  n >= 1 =>
                /\ cli.analysis.contains
                /\ cli.analysis.total = n
                /\ \A k \in 1..Len(shown) : shown[k].position = nth(at, k)
                /\ n <= 20 =>
                       /\ Len(shown) = n
                       /\ cli.analysis.listing.heading = "all"
                       /\ cli.analysis.listing.more = -1
                /\ n > 20 =>
                       /\ Len(shown) = 20
                       /\ cli.analysis.listing.heading = "first"
                       /\ cli.analysis.listing.more = n - 20

C26_Witness ==
    /\ cli.called
    /\ cli.command = "analyze"
    /\ cli.analysis.total = 21
    /\ Len(cli.analysis.listing.listed) = 20
    /\ cli.analysis.listing.listed[2].position = 2
    /\ cli.analysis.listing.more = 1

\* C30 (as claimed): clean called without an output file writes to a path other
\* than the input path, the input name with '.cleaned' inserted, and leaves the
\* input file as it was.
C30_CleanLeavesInput ==
    (cli.called /\ cli.command = "clean" /\ outputOption(cli.args) = <<>>) =>
        /\ cli.outputFile # cli.inputFile
        /\ disk[cli.inputFile] = cli.before

====
